---- MODULE Spec2Model ----
(***************************************************************************)
(* A model of the CodeMirror-API adapter over the monaco editor            *)
(* (src/src/cm_adapter.ts): the position translator, the search cursor and *)
(* the bracket scanner, together with the part of the host editor's text   *)
(* model these call (lines, offsets, findMatches, findNextMatch,           *)
(* findPreviousMatch, executeEdits, deltaDecorations).                     *)
(*                                                                         *)
(* A document is a sequence of one-character strings; "\n" ends a line.    *)
(* Host positions are 1-based records [lineNumber, column]; legacy         *)
(* positions are 0-based records [line, ch].                               *)
(***************************************************************************)
EXTENDS Integers, Sequences, FiniteSets, TLC

VARIABLES
    conv,           \* position translator: the position being converted back and forth
    doc,            \* host text model: the document's characters
    editorPos,      \* host editor: the cursor position (editor.getPosition())
    hostDecos,      \* host editor: active decorations, id -> [range, className]
    decorationIds,  \* adapter: this["decoration" + className], the ids it holds per class
    cursor,         \* the search cursor's closure: query, monacoPos, matches, lastSearch
    lastCall,       \* the last call made on the search cursor and what it returned
    scan,           \* the last scanForBracket call: its arguments and what it returned
    replaceMode,    \* adapter: this.replaceMode
    replaceStack,   \* adapter: this.replaceStack, the overwritten characters
    session,        \* the replace session since activation: its text and its keys
    attached,       \* adapter: this.attached
    marks,          \* adapter: this.marks, the registry id -> mark
    uid,            \* adapter: this.$uid
    created,        \* the marks setBookmark has returned, oldest first
    listeners,      \* adapter: this.listeners, event -> handlers
    calls,          \* the on() and off() calls made so far, oldest first
    selections,     \* host editor: its selections, the primary one first; <<>>
                    \* while the only selection is the empty one at editorPos
    curOp,          \* adapter: this.curOp, with the change records it reaches
    inVirtualSelectionMode  \* adapter: this.inVirtualSelectionMode, as a boolean

\* the operation context and the flag handleChange reads
opVars == <<curOp, inVirtualSelectionMode>>

\* what the event registry, the selection and the change specifications add
eventVars == <<listeners, calls, selections, opVars>>

\* the adapter's own fields and the histories kept about them
adapterVars == <<replaceMode, replaceStack, session, attached, marks, uid, created,
                 eventVars>>

vars == <<conv, doc, editorPos, hostDecos, decorationIds, cursor, lastCall, scan,
          adapterVars>>

---------------------------------------------------------------------------
(* Bounds of the model *)

\* longest document of the search-cursor specification, in characters
MaxDocLen == 2
\* largest line / column of the position-translator specification
MaxCoord == 6
\* longest document of the bracket-scanner specification, in characters
MaxBracketLen == 4
\* most replace() edits made through one search cursor
MaxEdits == 1

(* Program constants *)

\* Number.MAX_VALUE, the column getSearchCursor gives a position without ch:
\* any number above every column of the model (JS: MAX_VALUE + 1 = MAX_VALUE)
NumberMaxValue == 1000
\* scanForBracket gives up once `iterations > 10`
MaxIterations == 10

---------------------------------------------------------------------------
(* Values *)

Null == [null |-> TRUE]

Undefined == [undefined |-> TRUE]

\* binds a value to a name: Let(e, LAMBDA v : body) is body with v = e
Let(v, F(_)) == F(v)

Min(S) == CHOOSE x \in S : \A y \in S : x <= y
Max(S) == CHOOSE x \in S : \A y \in S : x >= y

RECURSIVE SeqsUpTo(_, _)
SeqsUpTo(A, n) ==
    IF n = 0 THEN {<<>>}
    ELSE LET S == SeqsUpTo(A, n - 1)
         IN  S \cup {Append(s, a) : s \in {t \in S : Len(t) = n - 1}, a \in A}

CmPos(line, column) == [line |-> line, ch |-> column]

Position(lineNumber, column) == [lineNumber |-> lineNumber, column |-> column]

\* Position.isBeforeOrEqual
isBeforeOrEqual(a, b) ==
    \/ a.lineNumber < b.lineNumber
    \/ a.lineNumber = b.lineNumber /\ a.column <= b.column

\* new Range(...): the constructor swaps the ends when the start is after the end
Range(sl, sc, el, ec) ==
    IF sl > el \/ (sl = el /\ sc > ec)
    THEN [startLineNumber |-> el, startColumn |-> ec,
          endLineNumber |-> sl, endColumn |-> sc]
    ELSE [startLineNumber |-> sl, startColumn |-> sc,
          endLineNumber |-> el, endColumn |-> ec]

getStartPosition(r) == Position(r.startLineNumber, r.startColumn)
getEndPosition(r) == Position(r.endLineNumber, r.endColumn)
\* Range.setEndPosition: a new Range with the same start
setEndPosition(r, el, ec) == Range(r.startLineNumber, r.startColumn, el, ec)
equalsRange(a, b) == a = b

---------------------------------------------------------------------------
(* Position translator *)

toCmPos(pos) == CmPos(pos.lineNumber - 1, pos.column - 1)

toMonacoPosClamped(pos) ==
    Position(Min({pos.line + 1, MaxCoord}), Min({pos.ch + 1, MaxCoord}))

toMonacoPos(pos) == Position(pos.line + 1, pos.ch + 1)

---------------------------------------------------------------------------
(* Host text model *)

FirstLineBreak(s) ==
    IF \E i \in 1..Len(s) : s[i] = "\n"
    THEN Min({i \in 1..Len(s) : s[i] = "\n"})
    ELSE 0

\* model.getLinesContent(): the document split at its line breaks
RECURSIVE SplitLines(_)
SplitLines(s) ==
    Let(FirstLineBreak(s), LAMBDA i :
        IF i = 0 THEN <<s>>
        ELSE <<SubSeq(s, 1, i - 1)>> \o SplitLines(SubSeq(s, i + 1, Len(s))))

getLineCount(d) == Len(SplitLines(d))
getLineContent(d, n) == SplitLines(d)[n]
getLineMaxColumn(d, n) == Len(SplitLines(d)[n]) + 1

\* the offset of the first character of line n
RECURSIVE LineStartOffset(_, _)
LineStartOffset(lines, n) ==
    IF n = 1 THEN 0
    ELSE LineStartOffset(lines, n - 1) + Len(lines[n - 1]) + 1

validatePosition(d, p) ==
    Let(SplitLines(d), LAMBDA lines :
        IF p.lineNumber < 1 THEN Position(1, 1)
        ELSE IF p.lineNumber > Len(lines)
        THEN Position(Len(lines), Len(lines[Len(lines)]) + 1)
        ELSE IF p.column <= 1 THEN Position(p.lineNumber, 1)
        ELSE IF p.column >= Len(lines[p.lineNumber]) + 1
        THEN Position(p.lineNumber, Len(lines[p.lineNumber]) + 1)
        ELSE p)

validateRange(d, r) ==
    Let(validatePosition(d, getStartPosition(r)), LAMBDA s :
        Let(validatePosition(d, getEndPosition(r)), LAMBDA e :
            Range(s.lineNumber, s.column, e.lineNumber, e.column)))

getOffsetAt(d, p) ==
    Let(validatePosition(d, p), LAMBDA v :
        LineStartOffset(SplitLines(d), v.lineNumber) + v.column - 1)

\* the line an offset of the document is on
LineOfOffset(lines, offset) ==
    Max({n \in 1..Len(lines) : LineStartOffset(lines, n) <= offset})

getPositionAt(d, rawOffset) ==
    Let(Min({Len(d), Max({0, rawOffset})}), LAMBDA offset :
        Position(LineOfOffset(SplitLines(d), offset),
                 offset - LineStartOffset(SplitLines(d),
                                          LineOfOffset(SplitLines(d), offset)) + 1))

AllPositions(d) == {getPositionAt(d, o) : o \in 0..Len(d)}

---------------------------------------------------------------------------
(* Host text search (the model's findMatches / findNextMatch /             *)
(* findPreviousMatch).  A search is [searchString, isRegex, matchCase];    *)
(* the pattern is a sequence of atoms, each one character.  As a regex,    *)
(* "." is any character of the line, "^" the start of the line, "$" its    *)
(* end, and "[()]" (one atom, used as a regex only) either round bracket.  *)
(* As a plain string every atom is a literal character.  The search string *)
(* holds no line break, so the host searches line by line.                 *)

NoMatch == [none |-> TRUE]

SearchParams(searchString, isRegex, matchCase) ==
    [searchString |-> searchString, isRegex |-> isRegex, matchCase |-> matchCase]

toLowerCase(ch) == IF ch = "A" THEN "a" ELSE IF ch = "B" THEN "b" ELSE ch

AtomMatches(atom, ch, q) ==
    IF q.isRegex /\ atom = "." THEN TRUE
    ELSE IF q.isRegex /\ atom = "[()]" THEN ch \in {"(", ")"}
    ELSE IF q.matchCase THEN atom = ch
    ELSE toLowerCase(atom) = toLowerCase(ch)

\* the index where a match of atoms k.. of the pattern that starts at index i
\* (0-based) of the line ends, or -1
RECURSIVE MatchEnd(_, _, _, _)
MatchEnd(text, i, k, q) ==
    IF k > Len(q.searchString) THEN i
    ELSE IF q.isRegex /\ q.searchString[k] = "^"
    THEN IF i = 0 THEN MatchEnd(text, i, k + 1, q) ELSE -1
    ELSE IF q.isRegex /\ q.searchString[k] = "$"
    THEN IF i = Len(text) THEN MatchEnd(text, i, k + 1, q) ELSE -1
    ELSE IF i < Len(text) /\ AtomMatches(q.searchString[k], text[i + 1], q)
    THEN MatchEnd(text, i + 1, k + 1, q)
    ELSE -1

\* regex.exec with the global flag: the leftmost match at or after lastIndex
RegExpExec(text, lastIndex, q) ==
    Let({i \in lastIndex..Len(text) : MatchEnd(text, i, 1, q) # -1}, LAMBDA at :
        IF at = {} THEN NoMatch
        ELSE [index |-> Min(at), end |-> MatchEnd(text, Min(at), 1, q)])

\* Searcher.next: the next match of the line, stepping over an empty match
\* that was already reported
RECURSIVE SearcherNext(_, _, _, _, _)
SearcherNext(text, lastIndex, prevStart, prevLen, q) ==
    IF prevStart + prevLen = Len(text) THEN NoMatch
    ELSE Let(RegExpExec(text, lastIndex, q), LAMBDA m :
             IF m = NoMatch THEN NoMatch
             ELSE IF m.index = prevStart /\ m.end - m.index = prevLen
             THEN IF prevLen = 0
                  THEN SearcherNext(text, m.index + 1, prevStart, prevLen, q)
                  ELSE NoMatch
             ELSE m)

\* the matches of one line, left to right, none overlapping another
RECURSIVE MatchesFrom(_, _, _, _, _)
MatchesFrom(text, lastIndex, prevStart, prevLen, q) ==
    Let(SearcherNext(text, lastIndex, prevStart, prevLen, q), LAMBDA m :
        IF m = NoMatch THEN <<>>
        ELSE <<m>> \o MatchesFrom(text, m.end, m.index, m.end - m.index, q))

FindMatchesInLine(text, q) == MatchesFrom(text, 0, -1, 0, q)

MatchRange(lineNumber, m) == Range(lineNumber, m.index + 1, lineNumber, m.end + 1)

\* the matches of lines n.. as ranges
RECURSIVE FindMatchesFromLine(_, _, _)
FindMatchesFromLine(lines, n, q) ==
    IF n > Len(lines) THEN <<>>
    ELSE Let(FindMatchesInLine(lines[n], q), LAMBDA ms :
             [i \in 1..Len(ms) |-> MatchRange(n, ms[i])]
                 \o FindMatchesFromLine(lines, n + 1, q))

\* model.findMatches(searchString, false, isRegex, matchCase, null, true):
\* every match of the document in document order; an empty search string has none
findMatches(d, q) ==
    IF q.searchString = <<>> THEN <<>> ELSE FindMatchesFromLine(SplitLines(d), 1, q)

\* the lines findNextMatch looks at after the start line: the following ones,
\* then from the top of the document down to the start line again
RECURSIVE NextInLines(_, _, _, _)
NextInLines(lines, startLine, i, q) ==
    IF i > Len(lines) THEN NoMatch
    ELSE Let(((startLine + i - 1) % Len(lines)) + 1, LAMBDA n :
             Let(SearcherNext(lines[n], 0, -1, 0, q), LAMBDA m :
                 IF m # NoMatch THEN MatchRange(n, m)
                 ELSE NextInLines(lines, startLine, i + 1, q)))

\* model.findNextMatch: the first match at or after the start position and,
\* failing that, the first match of the document (the search wraps around)
findNextMatch(d, q, rawStart) ==
    IF q.searchString = <<>> THEN NoMatch
    ELSE Let(validatePosition(d, rawStart), LAMBDA start :
             Let(SearcherNext(SplitLines(d)[start.lineNumber], start.column - 1, -1, 0, q),
                 LAMBDA m :
                     IF m # NoMatch THEN MatchRange(start.lineNumber, m)
                     ELSE NextInLines(SplitLines(d), start.lineNumber, 1, q)))

LastOf(ms) == IF ms = <<>> THEN NoMatch ELSE ms[Len(ms)]

\* the lines findPreviousMatch looks at before the start line: the preceding
\* ones, then from the bottom of the document up to the start line again
RECURSIVE PreviousInLines(_, _, _, _)
PreviousInLines(lines, startLine, i, q) ==
    IF i > Len(lines) THEN NoMatch
    ELSE Let(((Len(lines) + startLine - i - 1) % Len(lines)) + 1, LAMBDA n :
             Let(LastOf(FindMatchesInLine(lines[n], q)), LAMBDA m :
                 IF m # NoMatch THEN MatchRange(n, m)
                 ELSE PreviousInLines(lines, startLine, i + 1, q)))

\* model.findPreviousMatch: the last match that ends at or before the start
\* position and, failing that, the last match of the document (wrap around)
findPreviousMatch(d, q, rawStart) ==
    IF q.searchString = <<>> THEN NoMatch
    ELSE Let(validatePosition(d, rawStart), LAMBDA start :
             Let(LastOf(FindMatchesInLine(
                     SubSeq(SplitLines(d)[start.lineNumber], 1, start.column - 1), q)),
                 LAMBDA m :
                     IF m # NoMatch THEN MatchRange(start.lineNumber, m)
                     ELSE PreviousInLines(SplitLines(d), start.lineNumber, 1, q)))

\* the document after an edit that puts `text` in place of the range
ApplyEdit(d, range, text) ==
    Let(validateRange(d, range), LAMBDA r :
        SubSeq(d, 1, getOffsetAt(d, getStartPosition(r))) \o text
            \o SubSeq(d, getOffsetAt(d, getEndPosition(r)) + 1, Len(d)))

\* the range the inserted text takes in the edited document: what the host
\* hands the end-cursor-state callback of executeEdits as edits[0].range
EditedRange(d, range, text) ==
    Let(getOffsetAt(d, getStartPosition(validateRange(d, range))), LAMBDA s :
        Let(ApplyEdit(d, range, text), LAMBDA d2 :
            Let(getPositionAt(d2, s), LAMBDA from :
                Let(getPositionAt(d2, s + Len(text)), LAMBDA to :
                    Range(from.lineNumber, from.column, to.lineNumber, to.column)))))

---------------------------------------------------------------------------
(* Decorations: highlightRanges over the host's deltaDecorations.  A       *)
(* decoration is kept with the range it was created with; ids are the      *)
(* smallest ones the host has free (the host never hands out an id that is *)
(* still active).                                                          *)

HighlightClasses == {"findMatch", "currentFindMatch"}

RECURSIVE SortedSeq(_)
SortedSeq(S) == IF S = {} THEN <<>> ELSE <<Min(S)>> \o SortedSeq(S \ {Min(S)})

SeqToSet(s) == {s[i] : i \in 1..Len(s)}

\* the n smallest ids that are not in use
FreeIds(used, n) == SubSeq(SortedSeq((1..(Cardinality(used) + n)) \ used), 1, n)

\* editor.deltaDecorations(oldIds, newDecorations): [decos, ids]
deltaDecorations(decos, oldIds, newDecorations) ==
    Let(DOMAIN decos \ SeqToSet(oldIds), LAMBDA kept :
        Let(FreeIds(kept, Len(newDecorations)), LAMBDA ids :
            [decos |-> [i \in kept \cup SeqToSet(ids) |->
                           IF i \in kept THEN decos[i]
                           ELSE newDecorations[CHOOSE k \in 1..Len(ids) : ids[k] = i]],
             ids |-> ids]))

\* ranges.map((range) => ({range, options: {className, ...}}))
NewDecorations(ranges, className) ==
    [k \in 1..Len(ranges) |-> [range |-> ranges[k], className |-> className]]

highlightRangesKeepOld(st, ranges, className) ==
    Let(deltaDecorations(st.decos, <<>>, NewDecorations(ranges, className)), LAMBDA r :
        [decos |-> r.decos, ids |-> [st.ids EXCEPT ![className] = r.ids]])

\* highlightRanges that keeps its ids under one key for every class
highlightRangesOneKey(st, ranges, className) ==
    Let(deltaDecorations(st.decos, SortedSeq(DOMAIN st.decos),
                         NewDecorations(ranges, className)),
        LAMBDA r : [decos |-> r.decos,
                    ids |-> [c \in DOMAIN st.ids |-> IF c = className THEN r.ids ELSE <<>>]])

\* highlightRanges(ranges, className) on st = [decos, ids]: the decorations of
\* the class are replaced by one decoration per range
highlightRanges(st, ranges, className) ==
    Let(deltaDecorations(st.decos, st.ids[className], NewDecorations(ranges, className)),
        LAMBDA r : [decos |-> r.decos, ids |-> [st.ids EXCEPT ![className] = r.ids]])

\* the ranges the host shows under a class
DecorationRanges(decos, className) ==
    {decos[i].range : i \in {j \in DOMAIN decos : decos[j].className = className}}

DecorationCount(decos, className) ==
    Cardinality({j \in DOMAIN decos : decos[j].className = className})

---------------------------------------------------------------------------
(* Search cursor.  A query is a string, [type |-> "string", value], or a   *)
(* RegExp, [type |-> "regexp", source, global, ignoreCase].                *)

StringQuery(value) == [type |-> "string", value |-> value]

RegExpQuery(source, global, ignoreCase) ==
    [type |-> "regexp", source |-> source, global |-> global, ignoreCase |-> ignoreCase]

AcceptsRegExpAlways(query) == query.type = "regexp"

\* query instanceof RegExp && !query.global
AcceptsRegExp(query) == query.type = "regexp" /\ ~query.global

QueryMatchCase(query) ==
    IF AcceptsRegExp(query) THEN ~query.ignoreCase ELSE FALSE

QueryString(query) ==
    IF query.type = "string" THEN query.value
    ELSE IF AcceptsRegExp(query) THEN query.source
    ELSE <<>>

\* pos.ch === undefined: the position record has no ch
CursorStart(pos) ==
    toMonacoPos(IF "ch" \in DOMAIN pos THEN pos ELSE CmPos(pos.line, NumberMaxValue))

\* getSearchCursor(query, pos): the closure's variables (edits counts the
\* replace() edits made through the cursor, to bound the model)
getSearchCursor(d, query, pos) ==
    [query |-> query,
     strQuery |-> QueryString(query),
     isRegex |-> AcceptsRegExp(query),
     matchCase |-> QueryMatchCase(query),
     monacoPos |-> CursorStart(pos),
     matches |-> findMatches(d, SearchParams(QueryString(query), AcceptsRegExp(query),
                                             QueryMatchCase(query))),
     lastSearch |-> Null,
     edits |-> 0]

CursorSearch(c) == SearchParams(c.strQuery, c.isRegex, c.matchCase)

\* where a forward find starts: one character past the end of the last match
ForwardStart(d, c) ==
    IF c.lastSearch # Null
    THEN getPositionAt(d, getOffsetAt(d, getEndPosition(c.lastSearch)) + 1)
    ELSE c.monacoPos

\* where a backward find starts: the start of the last match
BackwardStart(d, c) ==
    IF c.lastSearch # Null THEN getStartPosition(c.lastSearch) ELSE c.monacoPos

\* !match || !pos.isBeforeOrEqual(match.range.getStartPosition()): return false
ForwardResult(pos, match) ==
    IF match = NoMatch \/ ~isBeforeOrEqual(pos, getStartPosition(match))
    THEN NoMatch
    ELSE match

\* !match?.range.getStartPosition().isBeforeOrEqual(pos): return false
BackwardResult(pos, match) ==
    IF match = NoMatch \/ ~isBeforeOrEqual(getStartPosition(match), pos)
    THEN NoMatch
    ELSE match

\* find(false): the match, or NoMatch where the code returns false
FindForward(d, c) ==
    IF Len(c.matches) = 0 THEN NoMatch
    ELSE Let(ForwardStart(d, c), LAMBDA pos :
             ForwardResult(pos, findNextMatch(d, CursorSearch(c), pos)))

\* find(true): the match, or NoMatch where the code returns false
FindBackward(d, c) ==
    IF Len(c.matches) = 0 THEN NoMatch
    ELSE Let(BackwardStart(d, c), LAMBDA pos :
             BackwardResult(pos, findPreviousMatch(d, CursorSearch(c), pos)))

find(d, c, back) == IF back THEN FindBackward(d, c) ELSE FindForward(d, c)

\* matches.map((m) => m.range).filter((r) => !r.equalsRange(lastSearch))
OtherMatches(c, current) == SelectSeq(c.matches, LAMBDA r : ~equalsRange(r, current))

\* the two highlightRanges calls that follow a successful find or jumpTo
HighlightMatch(st, c, current) ==
    highlightRanges(highlightRanges(st, <<current>>, "currentFindMatch"),
                    OtherMatches(c, current), "findMatch")

FindEffectRecordsFirst(c, st, match) ==
    IF match = NoMatch
    THEN [lastSearch |-> Null, decos |-> st.decos, ids |-> st.ids]
    ELSE Let(HighlightMatch(st, c, match), LAMBDA h :
             [lastSearch |-> match, decos |-> h.decos, ids |-> h.ids])

\* what find() leaves behind: nothing changes when it returns false, else the
\* match is recorded and both highlight classes are redrawn
FindEffect(c, st, match) ==
    IF match = NoMatch
    THEN [lastSearch |-> c.lastSearch, decos |-> st.decos, ids |-> st.ids]
    ELSE Let(HighlightMatch(st, c, match), LAMBDA h :
             [lastSearch |-> match, decos |-> h.decos, ids |-> h.ids])

\* jumpTo(index): `false` on an empty match list; matches[index] is undefined for
\* an index outside a non-empty list, and reading its .range throws a TypeError
JumpEffect(c, st, index) ==
    IF Len(c.matches) = 0
    THEN [lastSearch |-> c.lastSearch, decos |-> st.decos, ids |-> st.ids,
          result |-> NoMatch, threw |-> FALSE]
    ELSE IF index < 0 \/ index >= Len(c.matches)
    THEN [lastSearch |-> c.lastSearch, decos |-> st.decos, ids |-> st.ids,
          result |-> NoMatch, threw |-> TRUE]
    ELSE Let(HighlightMatch(st, c, c.matches[index + 1]), LAMBDA h :
             [lastSearch |-> c.matches[index + 1], decos |-> h.decos, ids |-> h.ids,
              result |-> c.matches[index + 1], threw |-> FALSE])

\* the state after the edit of `at` whose callback was handed `edited`
AfterEdit(d2, at, edited) ==
    Let(setEndPosition(at, edited.endLineNumber, edited.endColumn), LAMBDA range :
        [doc |-> d2, lastSearch |-> range,
         editorPos |-> validatePosition(d2, getStartPosition(range)),
         edits |-> 1, edited |-> edited])

ReplaceEffectAtCursor(d, c, pos, text) ==
    Let(IF c.lastSearch # Null THEN c.lastSearch
        ELSE Range(pos.lineNumber, pos.column, pos.lineNumber, pos.column), LAMBDA at :
        AfterEdit(ApplyEdit(d, at, text), at, EditedRange(d, at, text)))

ReplaceEffectKeepsMatch(d, c, pos, text) ==
    IF c.lastSearch = Null
    THEN [doc |-> d, lastSearch |-> Null, editorPos |-> pos, edits |-> 0, edited |-> Null]
    ELSE Let(ApplyEdit(d, c.lastSearch, text), LAMBDA d2 :
             [doc |-> d2, lastSearch |-> c.lastSearch,
              editorPos |-> validatePosition(d2, getStartPosition(c.lastSearch)),
              edits |-> 1, edited |-> EditedRange(d, c.lastSearch, text)])

\* replace(text) with the editor cursor at pos: one edit of the matched range,
\* whose end-cursor-state callback moves lastSearch's end to the end the host
\* reports, then editor.setPosition(start of lastSearch); nothing without a match
ReplaceEffect(d, c, pos, text) ==
    IF c.lastSearch = Null
    THEN [doc |-> d, lastSearch |-> Null, editorPos |-> pos, edits |-> 0, edited |-> Null]
    ELSE AfterEdit(ApplyEdit(d, c.lastSearch, text), c.lastSearch,
                   EditedRange(d, c.lastSearch, text))

\* from() / to(): the ends of the current match in legacy coordinates, or null
from(c) == IF c.lastSearch = Null THEN Null ELSE toCmPos(getStartPosition(c.lastSearch))
to(c) == IF c.lastSearch = Null THEN Null ELSE toCmPos(getEndPosition(c.lastSearch))

---------------------------------------------------------------------------
(* Inputs of the search-cursor specification *)

DocAlphabet == {"a", "b", "\n"}

\* the document of the directionality example: "a" at offsets 2, 5 and 9
ExampleDoc == <<"b", "b", "a", "b", "b", "a", "b", "b", "b", "a">>

SearchDocs == SeqsUpTo(DocAlphabet, MaxDocLen) \cup {ExampleDoc}

Queries ==
    { StringQuery(<<"a">>), StringQuery(<<"a", "b">>),
      RegExpQuery(<<"a">>, FALSE, FALSE), RegExpQuery(<<"A">>, FALSE, TRUE),
      RegExpQuery(<<"a">>, TRUE, FALSE), RegExpQuery(<<"$">>, FALSE, FALSE) }

\* the legacy positions of a document, and one position without ch per line
StartPositions(d) ==
    {toCmPos(p) : p \in AllPositions(d)} \cup {[line |-> n - 1] : n \in 1..getLineCount(d)}

ReplaceTexts == {<<>>, <<"a">>, <<"a", "a">>}

---------------------------------------------------------------------------
(* The last call made on the search cursor: its name, argument and result, *)
(* whether it threw, how many edits it issued with the range the host      *)
(* reported for the edit, and the current match it started from.           *)

Call(op, arg, result, threw, edits, edited) ==
    [op |-> op, arg |-> arg, result |-> result, threw |-> threw, edits |-> edits,
     edited |-> edited, lastSearchBefore |-> cursor.lastSearch]

---------------------------------------------------------------------------
(* Search-cursor specification *)

NoDecorations == [c \in HighlightClasses |-> <<>>]

\* the adapter's fields after its constructor; replaceMode and replaceStack
\* are declared optional and not assigned (replaceMode is "undefined",
\* "true" or "false")
\* this.curOp = {}: no change record, no change, no lastChange and no
\* changeHandlers.  A change record is [text, origin, next]; change, lastChange
\* and next are the index of a record in records, 0 when the field is not set.
EmptyOp == [records |-> <<>>, change |-> 0, lastChange |-> 0, changeHandlers |-> Undefined]

InitFields ==
    /\ curOp = EmptyOp
    /\ inVirtualSelectionMode = FALSE
    /\ replaceMode = "undefined"
    /\ replaceStack = Undefined
    /\ session = Null
    /\ marks = [id \in {} |-> Null]
    /\ uid = 0
    /\ created = <<>>
    /\ listeners = [event \in {} |-> <<>>]
    /\ calls = <<>>
    /\ selections = <<>>

InitAdapter == InitFields /\ attached = FALSE

Init ==
    /\ doc \in SearchDocs
    /\ editorPos = Position(1, 1)
    /\ hostDecos = <<>>
    /\ decorationIds = NoDecorations
    /\ cursor = Null
    /\ lastCall = Null
    /\ conv = Null
    /\ scan = Null
    /\ InitAdapter

GetSearchCursor(query, pos) ==
    /\ cursor = Null
    /\ cursor' = getSearchCursor(doc, query, pos)
    /\ UNCHANGED <<conv, doc, editorPos, hostDecos, decorationIds, lastCall, scan>>
    /\ UNCHANGED adapterVars

Find(back) ==
    /\ cursor # Null
    /\ \E match \in {find(doc, cursor, back)} :
       \E eff \in {FindEffect(cursor, [decos |-> hostDecos, ids |-> decorationIds], match)} :
          /\ cursor' = [cursor EXCEPT !.lastSearch = eff.lastSearch]
          /\ hostDecos' = eff.decos
          /\ decorationIds' = eff.ids
          /\ lastCall' = Call(IF back THEN "findPrevious" ELSE "findNext",
                              Null, match, FALSE, 0, Null)
    /\ UNCHANGED <<conv, doc, editorPos, scan>>
    /\ UNCHANGED adapterVars

FindNext == Find(FALSE)

FindPrevious == Find(TRUE)

JumpTo(index) ==
    /\ cursor # Null
    /\ \E eff \in {JumpEffect(cursor, [decos |-> hostDecos, ids |-> decorationIds], index)} :
          /\ cursor' = [cursor EXCEPT !.lastSearch = eff.lastSearch]
          /\ hostDecos' = eff.decos
          /\ decorationIds' = eff.ids
          /\ lastCall' = Call("jumpTo", index, eff.result, eff.threw, 0, Null)
    /\ UNCHANGED <<conv, doc, editorPos, scan>>
    /\ UNCHANGED adapterVars

Replace(text) ==
    /\ cursor # Null
    /\ Len(doc) <= MaxDocLen
    /\ \E eff \in {ReplaceEffect(doc, cursor, editorPos, text)} :
          /\ Len(eff.doc) <= MaxDocLen
          /\ cursor.edits + eff.edits <= MaxEdits
          /\ doc' = eff.doc
          /\ cursor' = [cursor EXCEPT !.lastSearch = eff.lastSearch,
                                       !.edits = cursor.edits + eff.edits]
          /\ editorPos' = eff.editorPos
          /\ lastCall' = Call("replace", text, Null, FALSE, eff.edits, eff.edited)
    /\ UNCHANGED <<conv, hostDecos, decorationIds, scan>>
    /\ UNCHANGED adapterVars

\* the indexes tried: every entry of the match list, one before and one after
JumpIndexes == IF cursor = Null THEN {} ELSE -1..Len(cursor.matches)

Next ==
    \/ \E query \in Queries, pos \in StartPositions(doc) : GetSearchCursor(query, pos)
    \/ FindNext
    \/ FindPrevious
    \/ \E index \in JumpIndexes : JumpTo(index)
    \/ \E text \in ReplaceTexts : Replace(text)

Spec == Init /\ [][Next]_vars

---------------------------------------------------------------------------
(* Position-translator specification: a position is converted to the other *)
(* coordinate system and back.                                             *)

Coords == 0..MaxCoord

InitPos ==
    /\ conv \in {[kind |-> "cm", origin |-> CmPos(l, c), value |-> CmPos(l, c), steps |-> 0]
                    : l \in Coords, c \in Coords}
          \cup {[kind |-> "monaco", origin |-> Position(l + 1, c + 1),
                 value |-> Position(l + 1, c + 1), steps |-> 0] : l \in Coords, c \in Coords}
    /\ doc = <<>>
    /\ editorPos = Position(1, 1)
    /\ hostDecos = <<>>
    /\ decorationIds = NoDecorations
    /\ cursor = Null
    /\ lastCall = Null
    /\ scan = Null
    /\ InitAdapter

ToMonacoPos ==
    /\ conv.steps < 2
    /\ "line" \in DOMAIN conv.value
    /\ conv' = [conv EXCEPT !.value = toMonacoPos(conv.value), !.steps = conv.steps + 1]
    /\ UNCHANGED <<doc, editorPos, hostDecos, decorationIds, cursor, lastCall, scan>>
    /\ UNCHANGED adapterVars

ToCmPos ==
    /\ conv.steps < 2
    /\ "lineNumber" \in DOMAIN conv.value
    /\ conv' = [conv EXCEPT !.value = toCmPos(conv.value), !.steps = conv.steps + 1]
    /\ UNCHANGED <<doc, editorPos, hostDecos, decorationIds, cursor, lastCall, scan>>
    /\ UNCHANGED adapterVars

NextPos == ToMonacoPos \/ ToCmPos

SpecPos == InitPos /\ [][NextPos]_vars

---------------------------------------------------------------------------
(* Bracket scanner *)

\* CMAdapter.matchingBrackets: the partner of a bracket, then ">" for an
\* opening bracket and "<" for a closing one
matchingBrackets ==
    [b \in {"(", ")", "[", "]", "{", "}", "<", ">"} |->
        CASE b = "(" -> <<")", ">">>
          [] b = ")" -> <<"(", "<">>
          [] b = "[" -> <<"]", ">">>
          [] b = "]" -> <<"[", "<">>
          [] b = "{" -> <<"}", ">">>
          [] b = "}" -> <<"{", "<">>
          [] b = "<" -> <<">", ">">>
          [] b = ">" -> <<"<", "<">>]

\* config.bracketRegex.source, searched as a case-sensitive regex: /[()]/
BracketSearch == SearchParams(<<"[()]">>, TRUE, TRUE)

\* dir === -1 ? model.findPreviousMatch : model.findNextMatch
searchFunc(d, dir, mPos) ==
    IF dir = -1 THEN findPreviousMatch(d, BracketSearch, mPos)
    ELSE findNextMatch(d, BracketSearch, mPos)

\* match.matches[0]: the text the match covers, one bracket
MatchedText(d, match) == d[getOffsetAt(d, getStartPosition(match)) + 1]

PushesNever(thisBracket, dir) == FALSE

\* matchingBracket && (matchingBracket.charAt(1) === ">") === dir > 0
Pushes(thisBracket, dir) ==
    /\ thisBracket \in DOMAIN matchingBrackets
    /\ (matchingBrackets[thisBracket][2] = ">") = (dir > 0)

\* model.getPositionAt(model.getOffsetAt(match.range.getStartPosition()) + dir)
NextScanPos(d, match, dir) ==
    getPositionAt(d, getOffsetAt(d, getStartPosition(match)) + dir)

\* one turn of the while (true) loop and the turns that follow it
RECURSIVE ScanLoop(_, _, _, _, _)
ScanLoop(d, mPos, dir, stack, iterations) ==
    IF iterations > MaxIterations THEN Undefined
    ELSE Let(searchFunc(d, dir, mPos), LAMBDA match :
             IF match = NoMatch THEN Undefined
             ELSE IF Pushes(MatchedText(d, match), dir)
             THEN ScanLoop(d, NextScanPos(d, match, dir), dir,
                           Append(stack, MatchedText(d, match)), iterations + 1)
             ELSE IF Len(stack) = 0
             THEN [pos |-> toCmPos(getStartPosition(match))]
             ELSE ScanLoop(d, NextScanPos(d, match, dir), dir,
                           SubSeq(stack, 1, Len(stack) - 1), iterations + 1))

scanForBracket(d, pos, dir) == ScanLoop(d, toMonacoPos(pos), dir, <<>>, 0)

\* the calls of searchFunc the loop makes were the ceiling tested one turn later
RECURSIVE ScanSearchesLate(_, _, _, _, _)
ScanSearchesLate(d, mPos, dir, stack, iterations) ==
    IF iterations > MaxIterations + 1 THEN 0
    ELSE Let(searchFunc(d, dir, mPos), LAMBDA match :
             IF match = NoMatch THEN 1
             ELSE IF Pushes(MatchedText(d, match), dir)
             THEN 1 + ScanSearchesLate(d, NextScanPos(d, match, dir), dir,
                                       Append(stack, MatchedText(d, match)), iterations + 1)
             ELSE IF Len(stack) = 0 THEN 1
             ELSE 1 + ScanSearchesLate(d, NextScanPos(d, match, dir), dir,
                                       SubSeq(stack, 1, Len(stack) - 1), iterations + 1))

\* the calls of searchFunc the while (true) loop makes, turn by turn as ScanLoop
RECURSIVE ScanSearches(_, _, _, _, _)
ScanSearches(d, mPos, dir, stack, iterations) ==
    IF iterations > MaxIterations THEN 0
    ELSE Let(searchFunc(d, dir, mPos), LAMBDA match :
             IF match = NoMatch THEN 1
             ELSE IF Pushes(MatchedText(d, match), dir)
             THEN 1 + ScanSearches(d, NextScanPos(d, match, dir), dir,
                                   Append(stack, MatchedText(d, match)), iterations + 1)
             ELSE IF Len(stack) = 0 THEN 1
             ELSE 1 + ScanSearches(d, NextScanPos(d, match, dir), dir,
                                   SubSeq(stack, 1, Len(stack) - 1), iterations + 1))

---------------------------------------------------------------------------
(* Bracket-scanner specification: scans of a fixed document *)

BracketAlphabet == {"(", ")", "a", "\n"}

\* "(a(b)c)"
BalancedDoc == <<"(", "a", "(", "b", ")", "c", ")">>

\* "(a(b)c"
UnbalancedDoc == <<"(", "a", "(", "b", ")", "c">>

\* n opening brackets, n closing brackets, then one closing bracket more
RECURSIVE Repeat(_, _)
Repeat(ch, n) == IF n = 0 THEN <<>> ELSE <<ch>> \o Repeat(ch, n - 1)

NestedDoc(n) == Repeat("(", n) \o Repeat(")", n + 1)

\* the unpaired closing bracket is the 11th and the 13th bracket of these
BracketDocs ==
    SeqsUpTo(BracketAlphabet, MaxBracketLen)
        \cup {BalancedDoc, UnbalancedDoc,
              NestedDoc(MaxIterations \div 2), NestedDoc(MaxIterations \div 2 + 1)}

InitBracket ==
    /\ doc \in BracketDocs
    /\ scan = Null
    /\ editorPos = Position(1, 1)
    /\ hostDecos = <<>>
    /\ decorationIds = NoDecorations
    /\ cursor = Null
    /\ lastCall = Null
    /\ conv = Null
    /\ InitAdapter

\* a scan changes nothing of the adapter or the host: one scan is recorded
ScanForBracket(pos, dir) ==
    /\ scan = Null
    /\ scan' = [pos |-> pos, dir |-> dir, result |-> scanForBracket(doc, pos, dir),
                 searches |-> ScanSearches(doc, toMonacoPos(pos), dir, <<>>, 0)]
    /\ UNCHANGED <<conv, doc, editorPos, hostDecos, decorationIds, cursor, lastCall>>
    /\ UNCHANGED adapterVars

NextBracket ==
    \E p \in AllPositions(doc), dir \in {-1, 1} : ScanForBracket(toCmPos(p), dir)

SpecBracket == InitBracket /\ [][NextBracket]_vars

---------------------------------------------------------------------------
(* Claims about the position translator (checked under SpecPos) *)

\* C1: a position converted to the other coordinate system and back is the
\* position it was, for legacy and for host positions alike; one conversion
\* shifts line and column by exactly 1, whatever their size (no clamping).
C1_RoundTrip ==
    /\ conv.steps = 2 => conv.value = conv.origin
    /\ (conv.steps = 1 /\ conv.kind = "cm") =>
           conv.value = [lineNumber |-> conv.origin.line + 1, column |-> conv.origin.ch + 1]
    /\ (conv.steps = 1 /\ conv.kind = "monaco") =>
           conv.value = [line |-> conv.origin.lineNumber - 1, ch |-> conv.origin.column - 1]

\* a legacy position on the largest line and column, converted and back
C1_Witness ==
    /\ conv.kind = "cm"
    /\ conv.origin = CmPos(MaxCoord, MaxCoord)
    /\ conv.steps = 2
    /\ conv.value = conv.origin

---------------------------------------------------------------------------
(* Claims about the search cursor (checked under Spec) *)

Called(ops) == lastCall # Null /\ lastCall.op \in ops

Finds == {"findNext", "findPrevious"}

\* C2: a successful findNext() on a positioned cursor never returns the match
\* the cursor was on, and with exactly one match in a document that was not
\* edited a findNext() of a cursor that is on that match reports no-match.
C2_ForwardProgress ==
    (Called({"findNext"}) /\ lastCall.lastSearchBefore # Null) =>
        /\ lastCall.result # NoMatch => lastCall.result # lastCall.lastSearchBefore
        /\ (Len(cursor.matches) = 1 /\ cursor.edits = 0) => lastCall.result = NoMatch

\* a findNext() has returned the match the cursor was already on
C2_SameMatchAgain ==
    /\ Called({"findNext"})
    /\ lastCall.lastSearchBefore # Null
    /\ lastCall.result = lastCall.lastSearchBefore
    /\ Len(cursor.matches) = 1

\* C3: with "a" at offsets 2, 5 and 9 and the cursor on the match at 5,
\* findPrevious() returns the match at 2 and the findNext() that follows returns
\* the match at 5; in general (no edit made) the findNext() that follows a
\* successful findPrevious() returns the match the cursor was on before it.
C3_Directionality ==
    (Called({"findPrevious"}) /\ lastCall.result # NoMatch /\ cursor.edits = 0
        /\ lastCall.lastSearchBefore # Null) =>
        /\ (doc = ExampleDoc /\ cursor.strQuery = <<"a">>
               /\ lastCall.lastSearchBefore = Range(1, 6, 1, 7)) =>
               lastCall.result = Range(1, 3, 1, 4)
        /\ FindForward(doc, cursor) = lastCall.lastSearchBefore

\* the example of C3 alone: from the match at 5, findPrevious() returns the match
\* at 2 and the findNext() that follows returns the match at 5
C3_Example ==
    (Called({"findPrevious"}) /\ doc = ExampleDoc /\ cursor.strQuery = <<"a">>
        /\ lastCall.lastSearchBefore = Range(1, 6, 1, 7)) =>
        /\ lastCall.result = Range(1, 3, 1, 4)
        /\ FindForward(doc, cursor) = Range(1, 6, 1, 7)

\* findPrevious() has moved the cursor one match back and the findNext() that
\* follows does not return the match the cursor came from
C3_NoWayBack ==
    /\ Called({"findPrevious"})
    /\ lastCall.result # NoMatch
    /\ cursor.edits = 0
    /\ lastCall.lastSearchBefore # Null
    /\ lastCall.result # lastCall.lastSearchBefore
    /\ FindForward(doc, cursor) # lastCall.lastSearchBefore

\* C4: a findNext() or findPrevious() that reports no-match leaves the cursor
\* (its current match, so from() and to()) and the decorations of both
\* highlight classes, in the host and in the adapter, as they were.
C4_NoMatchChangesNothing ==
    [][(lastCall' # Null /\ lastCall'.op \in Finds /\ lastCall'.result = NoMatch) =>
          /\ cursor' = cursor
          /\ from(cursor') = from(cursor)
          /\ to(cursor') = to(cursor)
          /\ hostDecos' = hostDecos
          /\ decorationIds' = decorationIds]_vars

\* a find has reported no-match on a cursor that is on a match and has
\* decorations of both classes
C4_Witness ==
    /\ Called(Finds)
    /\ lastCall.result = NoMatch
    /\ cursor.lastSearch # Null
    /\ DecorationCount(hostDecos, "currentFindMatch") = 1
    /\ DecorationCount(hostDecos, "findMatch") >= 1

\* the ids of the host's decorations of a class
DecorationsOf(className) == {i \in DOMAIN hostDecos : hostDecos[i].className = className}

\* C5: after a successful findNext(), findPrevious() or jumpTo() the
\* currentFindMatch decorations are exactly one, the recorded current match,
\* and the findMatch decorations are exactly the precomputed matches whose
\* range does not equal the current match; the adapter holds exactly their ids.
C5_Highlights ==
    (Called(Finds \cup {"jumpTo"}) /\ lastCall.result # NoMatch) =>
        /\ cursor.lastSearch = lastCall.result
        /\ DecorationRanges(hostDecos, "currentFindMatch") = {cursor.lastSearch}
        /\ DecorationCount(hostDecos, "currentFindMatch") = 1
        /\ DecorationRanges(hostDecos, "findMatch")
               = {r \in SeqToSet(cursor.matches) : ~equalsRange(r, cursor.lastSearch)}
        /\ DecorationCount(hostDecos, "findMatch")
               = Cardinality({k \in 1..Len(cursor.matches) :
                                 ~equalsRange(cursor.matches[k], cursor.lastSearch)})
        /\ \A c \in HighlightClasses : SeqToSet(decorationIds[c]) = DecorationsOf(c)

\* a find has moved the cursor from one match to another while a third match
\* stays a plain one
C5_Witness ==
    /\ Called(Finds)
    /\ lastCall.result # NoMatch
    /\ lastCall.lastSearchBefore # Null
    /\ lastCall.lastSearchBefore # lastCall.result
    /\ Len(cursor.matches) = 3
    /\ DecorationCount(hostDecos, "findMatch") = 2

\* the range lies in the document: the host's validation leaves it as it is
InDocument(d, r) == validateRange(d, r) = r

\* the match starts at or after the start of the range and before its end
StartsInside(m, r) ==
    /\ isBeforeOrEqual(getStartPosition(r), getStartPosition(m))
    /\ ~isBeforeOrEqual(getEndPosition(r), getStartPosition(m))

\* C6: replace(text) on a cursor with a current match makes one edit that puts
\* the text in place of the matched range; the current match keeps its start
\* and gets the end the host reports for the edit (for a match that lies in
\* the document: the end of the inserted text); and the findNext() that follows
\* reports no-match or a match that does not start inside the inserted text.
C6_ReplaceMovesCursor ==
    [][(lastCall' # Null /\ lastCall'.op = "replace" /\ cursor.lastSearch # Null) =>
          /\ lastCall'.edits = 1
          /\ doc' = SubSeq(doc, 1, getOffsetAt(doc, getStartPosition(cursor.lastSearch)))
                       \o lastCall'.arg
                       \o SubSeq(doc, getOffsetAt(doc, getEndPosition(cursor.lastSearch)) + 1,
                                 Len(doc))
          /\ cursor'.lastSearch = setEndPosition(cursor.lastSearch,
                                                 lastCall'.edited.endLineNumber,
                                                 lastCall'.edited.endColumn)
          /\ InDocument(doc, cursor.lastSearch) =>
                 /\ getStartPosition(cursor'.lastSearch) = getStartPosition(cursor.lastSearch)
                 /\ getEndPosition(cursor'.lastSearch) = getEndPosition(lastCall'.edited)
                 /\ getOffsetAt(doc', getEndPosition(cursor'.lastSearch))
                        = getOffsetAt(doc, getStartPosition(cursor.lastSearch))
                              + Len(lastCall'.arg)
          /\ \/ FindForward(doc', cursor') = NoMatch
             \/ ~StartsInside(FindForward(doc', cursor'), lastCall'.edited)]_vars

\* a replace() has put a text that contains the query in place of the current
\* match, and the cursor's match now ends where the inserted text ends
C6_Witness ==
    /\ Called({"replace"})
    /\ lastCall.edits = 1
    /\ cursor.strQuery = <<"a">>
    /\ lastCall.arg = <<"a", "a">>
    /\ lastCall.lastSearchBefore = Range(1, 1, 1, 2)
    /\ cursor.lastSearch = Range(1, 1, 1, 3)
    /\ doc = <<"a", "a">>

\* C7: replace(text) on a cursor without a current match changes nothing: no
\* edit is issued, the document and the editor cursor are as they were, the
\* cursor still has no current match, and nothing is thrown.
C7_ReplaceWithoutMatch ==
    [][(lastCall' # Null /\ lastCall'.op = "replace" /\ cursor.lastSearch = Null) =>
          /\ lastCall'.edits = 0
          /\ ~lastCall'.threw
          /\ doc' = doc
          /\ editorPos' = editorPos
          /\ cursor' = cursor
          /\ hostDecos' = hostDecos]_vars

\* replace("a") was called on a cursor that has matches to find but no current
\* match, after a find that reported no-match would have left it so
C7_Witness ==
    /\ Called({"replace"})
    /\ lastCall.arg = <<"a">>
    /\ lastCall.lastSearchBefore = Null
    /\ lastCall.edits = 0
    /\ cursor.lastSearch = Null
    /\ Len(cursor.matches) > 0
    /\ doc # <<>>

\* C8 (as the code has it): a RegExp with the global flag gives a cursor in
\* plain-string mode whose search string is empty, so it has no matches; a
\* RegExp without it is searched as a regex, its source the search string,
\* with matchCase the negation of its ignoreCase flag.
C8_QueryMode ==
    (cursor # Null /\ cursor.query.type = "regexp") =>
        IF cursor.query.global
        THEN /\ ~cursor.isRegex
             /\ ~cursor.matchCase
             /\ cursor.strQuery = <<>>
             /\ cursor.matches = <<>>
        ELSE /\ cursor.isRegex
             /\ cursor.strQuery = cursor.query.source
             /\ cursor.matchCase = ~cursor.query.ignoreCase

\* a cursor made from /a/g over a document that holds an "a" has found nothing
C8_Witness ==
    /\ cursor # Null
    /\ cursor.query = RegExpQuery(<<"a">>, TRUE, FALSE)
    /\ doc = <<"a">>
    /\ cursor.matches = <<>>
    /\ Called({"findNext"})
    /\ lastCall.result = NoMatch

\* C8 as stated: a RegExp with the global flag is searched like the plain
\* string of its source; a RegExp without it as a regex with matchCase the
\* negation of its ignoreCase flag.
C8_AsStated ==
    (cursor # Null /\ cursor.query.type = "regexp") =>
        IF cursor.query.global
        THEN CursorSearch(cursor) = SearchParams(cursor.query.source, FALSE, FALSE)
        ELSE CursorSearch(cursor)
                 = SearchParams(cursor.query.source, TRUE, ~cursor.query.ignoreCase)

\* C9: jumpTo(index) makes the index-th precomputed match the current match
\* whatever the cursor's state was, and with no such entry it reports no-match,
\* leaves the current match as it was and throws nothing.
C9_JumpTo ==
    Called({"jumpTo"}) =>
        /\ ~lastCall.threw
        /\ IF lastCall.arg \in 0..(Len(cursor.matches) - 1)
           THEN /\ lastCall.result = cursor.matches[lastCall.arg + 1]
                /\ cursor.lastSearch = lastCall.result
           ELSE /\ lastCall.result = NoMatch
                /\ cursor.lastSearch = lastCall.lastSearchBefore

\* jumpTo was called with the index one past the last entry of a match list
\* that is not empty, and threw
C9_Threw ==
    /\ Called({"jumpTo"})
    /\ Len(cursor.matches) >= 1
    /\ lastCall.arg = Len(cursor.matches)
    /\ lastCall.threw

---------------------------------------------------------------------------
(* Claims about the bracket scanner (checked under SpecBracket) *)

\* the first closing bracket at index i.. (1-based) of the document that no
\* opening bracket at or after the start pairs with: its offset, or -1, and
\* the number of brackets up to and including it
RECURSIVE UnpairedClose(_, _, _, _)
UnpairedClose(d, i, depth, met) ==
    IF i > Len(d) THEN [at |-> -1, met |-> met]
    ELSE IF d[i] = "(" THEN UnpairedClose(d, i + 1, depth + 1, met + 1)
    ELSE IF d[i] = ")"
    THEN IF depth = 0 THEN [at |-> i - 1, met |-> met + 1]
         ELSE UnpairedClose(d, i + 1, depth - 1, met + 1)
    ELSE UnpairedClose(d, i + 1, depth, met)

\* the unpaired closing bracket a forward scan from the scan's position looks for
ScanTarget == UnpairedClose(doc, getOffsetAt(doc, toMonacoPos(scan.pos)) + 1, 0, 0)

AnswerAt(offset) == [pos |-> toCmPos(getPositionAt(doc, offset))]

\* C10 (as the code has it): on "(a(b)c)" a forward scan that starts just after
\* the first "(" returns the position of the final ")"; in general a forward
\* scan returns the first closing bracket at or after its start that is not
\* paired with an opening bracket at or after its start, when that bracket is
\* among the first MaxIterations + 1 brackets from the start.
C10_ForwardScan ==
    (scan # Null /\ scan.dir = 1) =>
        /\ (doc = BalancedDoc /\ scan.pos = CmPos(0, 1)) => scan.result = [pos |-> CmPos(0, 6)]
        /\ (ScanTarget.at # -1 /\ ScanTarget.met <= MaxIterations + 1) =>
               scan.result = AnswerAt(ScanTarget.at)

\* the forward scan of "(a(b)c)" from just after the first "(" has answered
C10_Witness ==
    /\ scan # Null
    /\ doc = BalancedDoc
    /\ scan.dir = 1
    /\ scan.pos = CmPos(0, 1)
    /\ scan.result = [pos |-> CmPos(0, 6)]

\* C10 as stated: the forward scan of "(a(b)c)" from the first "(" returns the
\* final ")", and every forward scan returns the first unpaired closing bracket.
C10_AsStated ==
    (scan # Null /\ scan.dir = 1) =>
        /\ (doc = BalancedDoc /\ scan.pos = CmPos(0, 0)) => scan.result = [pos |-> CmPos(0, 6)]
        /\ ScanTarget.at # -1 => scan.result = AnswerAt(ScanTarget.at)

\* the first opening bracket at index i or before it (1-based, going down)
\* that no closing bracket met on the way pairs with: its offset, or -1
RECURSIVE UnpairedOpen(_, _, _)
UnpairedOpen(d, i, depth) ==
    IF i < 1 THEN -1
    ELSE IF d[i] = ")" THEN UnpairedOpen(d, i - 1, depth + 1)
    ELSE IF d[i] = "("
    THEN IF depth = 0 THEN i - 1 ELSE UnpairedOpen(d, i - 1, depth - 1)
    ELSE UnpairedOpen(d, i - 1, depth)

\* the unpaired opening bracket a backward scan from the scan's position looks for
BackwardTarget == UnpairedOpen(doc, getOffsetAt(doc, toMonacoPos(scan.pos)), 0)

\* C11: the forward scan of "(a(b)c" from the first "(" reports undefined, and
\* a scan reports undefined whenever its direction holds no unpaired bracket
\* of the opposite nesting direction: no unpaired closing bracket at or after
\* the start of a forward scan, no unpaired opening bracket before the start
\* of a backward scan.
C11_NoAnswerWithoutBracket ==
    scan # Null =>
        /\ (doc = UnbalancedDoc /\ scan.dir = 1 /\ scan.pos = CmPos(0, 0)) =>
               scan.result = Undefined
        /\ (scan.dir = 1 /\ ScanTarget.at = -1) => scan.result = Undefined
        /\ (scan.dir = -1 /\ BackwardTarget = -1) => scan.result = Undefined

\* the example of C11 alone, from the first "(" and from just after it
C11_Example ==
    (scan # Null /\ doc = UnbalancedDoc /\ scan.dir = 1 /\ scan.pos \in {CmPos(0, 0), CmPos(0, 1)}) =>
        scan.result = Undefined

\* a forward scan with no unpaired closing bracket at or after its start has
\* returned a position, one before its start
C11_AnswerBehindStart ==
    /\ scan # Null
    /\ scan.dir = 1
    /\ ScanTarget.at = -1
    /\ scan.result # Undefined
    /\ getOffsetAt(doc, toMonacoPos(scan.result.pos)) < getOffsetAt(doc, toMonacoPos(scan.pos))

---------------------------------------------------------------------------
(* Key names *)

\* A key name is a sequence of tokens whose concatenation is the string the
\* program builds: a character is a token of its own, and so is each name
\* the program never takes apart ("Enter", "Ctrl-").  A keyboard event is
\* [keyCode, key, altKey, ctrlKey, metaKey, shiftKey, defaultPrevented]:
\* keyCode is the name KeyCode[e.keyCode], key is e.browserEvent.key.

\* the one-character strings that occur as tokens
Characters == {"a", "A", "b", "x", "1", "[", " ", "'"}

\* key codes named "Key?" ("KEY_?"), with the lower-cased last character
KeyLetters == [KeyA |-> "a", KeyX |-> "x"]
\* key codes named "Digit?", with the character at index 5
KeyDigits == [Digit1 |-> "1"]
\* key codes named "Numpad?", with the character at index 6
KeyNumpads == [Numpad1 |-> "1"]
\* key codes named "?Arrow", with the name less its last five characters
KeyArrows == [LeftArrow |-> "Left", UpArrow |-> "Up"]
\* key codes named "US_?" or "Bracket?"
KeyBrowserNamed == {"BracketLeft"}
\* the key codes returned as they are
KeyModifiers == {"Shift", "Meta", "Alt", "Ctrl"}

\* key.length === 1
IsOneCharacter(key) == Len(key) = 1 /\ key[1] \in Characters

\* skipOnlyShiftCheck were Escape not to set it
SkipOnlyShiftCheckNotEscape(e) == e.keyCode \in {"Space"} \cup DOMAIN KeyArrows

\* the switch of monacoToCmKey and the arrow branch: skipOnlyShiftCheck
SkipOnlyShiftCheck(e) == e.keyCode \in {"Escape", "Space"} \cup DOMAIN KeyArrows

\* the key before the modifier step
KeyOfCode(e) ==
    IF e.keyCode \in DOMAIN KeyLetters THEN <<KeyLetters[e.keyCode]>>
    ELSE IF e.keyCode \in DOMAIN KeyDigits THEN <<KeyDigits[e.keyCode]>>
    ELSE IF e.keyCode \in DOMAIN KeyNumpads THEN <<KeyNumpads[e.keyCode]>>
    ELSE IF e.keyCode \in DOMAIN KeyArrows THEN <<KeyArrows[e.keyCode]>>
    ELSE IF e.keyCode \in KeyBrowserNamed THEN <<e.key>>
    ELSE IF e.keyCode = "Escape" THEN <<"Esc">>
    ELSE <<e.keyCode>>

\* the modifier step were each prefix put behind the ones already there
WithModifiersInOrder(e, key) ==
    (IF e.altKey THEN <<"Alt-">> ELSE <<>>) \o (IF e.ctrlKey THEN <<"Ctrl-">> ELSE <<>>)
        \o (IF e.metaKey THEN <<"Meta-">> ELSE <<>>) \o (IF e.shiftKey THEN <<"Shift-">> ELSE <<>>)
        \o key

\* the modifier step: each held modifier is put in front of what is there
WithModifiers(e, key) ==
    (IF e.shiftKey THEN <<"Shift-">> ELSE <<>>) \o (IF e.metaKey THEN <<"Meta-">> ELSE <<>>)
        \o (IF e.ctrlKey THEN <<"Ctrl-">> ELSE <<>>) \o (IF e.altKey THEN <<"Alt-">> ELSE <<>>)
        \o key

\* the quoting step were it to quote the character a prefixed name ends with
AddQuotesLast(key) ==
    IF key # <<>> /\ key[Len(key)] \in Characters
    THEN SubSeq(key, 1, Len(key) - 1) \o <<"'", key[Len(key)], "'">>
    ELSE key

AddQuotes(key) == IF IsOneCharacter(key) THEN <<"'", key[1], "'">> ELSE key

monacoToCmKey(e) ==
    IF e.keyCode \in KeyModifiers THEN <<e.keyCode>>
    ELSE IF ~SkipOnlyShiftCheck(e) /\ ~e.altKey /\ ~e.ctrlKey /\ ~e.metaKey
         THEN AddQuotes(<<e.key>>)
         ELSE AddQuotes(WithModifiers(e, KeyOfCode(e)))

---------------------------------------------------------------------------
(* Replace mode *)

\* host model: getValueInRange
getValueInRange(d, range) ==
    Let(validateRange(d, range), LAMBDA r :
        SubSeq(d, getOffsetAt(d, getStartPosition(r)) + 1, getOffsetAt(d, getEndPosition(r))))

\* host editor: where the cursor is after executeEdits is given no end cursor
\* state.  The cursor is recovered from its marker, and with
\* forceMoveMarkers a marker inside or at an edge of the replaced range ends
\* up behind the inserted text.
CursorAfterEdit(d, range, text, pos) ==
    Let(validateRange(d, range), LAMBDA r :
        Let(getOffsetAt(d, validatePosition(d, pos)), LAMBDA m :
            Let(<<getOffsetAt(d, getStartPosition(r)), getOffsetAt(d, getEndPosition(r))>>,
                LAMBDA se :
                    getPositionAt(ApplyEdit(d, range, text),
                        IF m < se[1] THEN m
                        ELSE IF m <= se[2] THEN se[1] + Len(text)
                        ELSE m + Len(text) - (se[2] - se[1])))))

\* this.replaceStack when it is an array; Undefined when it was never assigned
Stack(items) == [items |-> items]

\* what handleReplaceMode leaves: the document, the cursor, the stack and
\* whether it called e.preventDefault() / e.stopPropagation()
ReplaceOutcome(d, pos, stack, prevented) ==
    [doc |-> d, pos |-> pos, stack |-> stack, prevented |-> prevented]

\* a quoted character or Enter: overwrite what the range (pos, pos + 1) holds
ReplaceType(d, pos, stack, char) ==
    Let(Range(pos.lineNumber, pos.column, pos.lineNumber, pos.column + 1), LAMBDA range :
        ReplaceOutcome(ApplyEdit(d, range, <<char>>),
                       CursorAfterEdit(d, range, <<char>>, pos),
                       Stack((IF stack = Undefined THEN <<>> ELSE stack.items)
                           \o (IF getValueInRange(d, range) # <<>>
                               THEN <<getValueInRange(d, range)>> ELSE <<>>)),
                       TRUE))

\* Backspace with something on the stack: put the last item back over the
\* range (pos, pos - 1), which the Range constructor turns around
ReplaceBackspace(d, pos, stack) ==
    Let(Range(pos.lineNumber, pos.column, pos.lineNumber, pos.column - 1), LAMBDA range :
        Let(ApplyEdit(d, range, stack.items[Len(stack.items)]), LAMBDA edited :
            ReplaceOutcome(edited, validatePosition(edited, getStartPosition(range)),
                           Stack(SubSeq(stack.items, 1, Len(stack.items) - 1)), TRUE)))

handleReplaceMode(d, pos, stack, key) ==
    IF key[1] = "'" THEN ReplaceType(d, pos, stack, key[2])
    ELSE IF key = <<"Enter">> THEN ReplaceType(d, pos, stack, "\n")
    ELSE IF key = <<"Backspace">>
         THEN IF stack = Undefined \/ stack = Stack(<<>>)
              THEN ReplaceOutcome(d, pos, stack, FALSE)
              ELSE ReplaceBackspace(d, pos, stack)
    ELSE ReplaceOutcome(d, pos, stack, FALSE)

\* toggleOverwrite: [replaceMode, replaceStack] after the call
toggleOverwrite(stack, toggle) ==
    IF toggle THEN [replaceMode |-> "true", replaceStack |-> stack]
    ELSE [replaceMode |-> "false", replaceStack |-> Stack(<<>>)]

---------------------------------------------------------------------------
(* Key-down handler *)

\* what the key map returns for a key is decided outside the adapter: no
\* command, a command that returns, or a command that throws
Commands == {"none", "returns", "throws"}

\* what handleKeyDown leaves: the document, the cursor and the stack, the
\* key name it computed (<<>> when it returned before), whether preventDefault() / stopPropagation() were
\* called, whether the command was invoked, and whether an error left the
\* handler
KeyOutcome(d, pos, stack, key, prevented, invoked, propagated) ==
    [doc |-> d, pos |-> pos, stack |-> stack, key |-> key, prevented |-> prevented,
     invoked |-> invoked, propagated |-> propagated]

\* the key map step without the try / catch
RunCommandUnguarded(r, key, cmd) ==
    IF cmd = "none" THEN KeyOutcome(r.doc, r.pos, r.stack, key, r.prevented, FALSE, FALSE)
    ELSE KeyOutcome(r.doc, r.pos, r.stack, key, TRUE, TRUE, cmd = "throws")

\* the key map step of handleKeyDown: the command runs inside try / catch
RunCommand(r, key, cmd) ==
    IF cmd = "none" THEN KeyOutcome(r.doc, r.pos, r.stack, key, r.prevented, FALSE, FALSE)
    ELSE KeyOutcome(r.doc, r.pos, r.stack, key, TRUE, TRUE, FALSE)

\* handleKeyDown without its two early returns
handleKeyDownAlways(d, pos, mode, stack, isAttached, e, cmd) ==
    Let(monacoToCmKey(e), LAMBDA key :
        IF mode = "true"
        THEN RunCommand(handleReplaceMode(d, pos, stack, key), key, cmd)
        ELSE RunCommand(ReplaceOutcome(d, pos, stack, FALSE), key, cmd))

handleKeyDown(d, pos, mode, stack, isAttached, e, cmd) ==
    IF (e.defaultPrevented /\ e.keyCode # "Escape") \/ ~isAttached
    THEN KeyOutcome(d, pos, stack, <<>>, FALSE, FALSE, FALSE)
    ELSE Let(monacoToCmKey(e), LAMBDA key :
            IF mode = "true"
            THEN RunCommand(handleReplaceMode(d, pos, stack, key), key, cmd)
            ELSE RunCommand(ReplaceOutcome(d, pos, stack, FALSE), key, cmd))

---------------------------------------------------------------------------
(* Replace-mode specification *)

\* longest document of the replace-mode specification at its start, in characters
MaxReplaceLen == 2
\* most characters, Enters and Backspaces handed to the emulator in one behaviour
MaxKeys == 3

ReplaceDocs == SeqsUpTo(DocAlphabet, MaxReplaceLen)

KeyEvent(keyCode, key, ctrlKey, defaultPrevented) ==
    [keyCode |-> keyCode, key |-> key, altKey |-> FALSE, ctrlKey |-> ctrlKey,
     metaKey |-> FALSE, shiftKey |-> FALSE, defaultPrevented |-> defaultPrevented]

\* the key-downs of the replace-mode specification: a letter, Enter, Backspace
ReplaceKeyEvents ==
    {KeyEvent(k[1], k[2], FALSE, FALSE) :
        k \in {<<"KeyX", "x">>, <<"Enter", "Enter">>, <<"Backspace", "Backspace">>}}

\* the adapter after initVimMode: constructed and attached
InitReplace ==
    /\ doc \in ReplaceDocs
    /\ editorPos \in AllPositions(doc)
    /\ hostDecos = <<>>
    /\ decorationIds = NoDecorations
    /\ cursor = Null
    /\ lastCall = Null
    /\ conv = Null
    /\ scan = Null
    /\ InitFields
    /\ attached = TRUE

\* the key map's attach(cm), which initVimMode calls, marks the adapter attached
Attach ==
    /\ ~attached
    /\ attached' = TRUE
    /\ lastCall' = [op |-> "attach"]
    /\ UNCHANGED <<conv, doc, editorPos, hostDecos, decorationIds, cursor, scan>>
    /\ UNCHANGED <<replaceMode, replaceStack, session, marks, uid, created>>
    /\ UNCHANGED eventVars

\* the session a key-down leaves: the characters, Enters and Backspaces
\* handed to the emulator are counted, and `ordered` says that no character
\* was typed after a Backspace
SessionAfter(s, key, reached) ==
    IF s = Null \/ ~reached THEN s
    ELSE IF key = <<"Backspace">>
         THEN [s EXCEPT !.erased = s.erased + 1, !.keys = s.keys + 1]
    ELSE IF key = <<"Enter">>
         THEN [s EXCEPT !.enters = s.enters + 1, !.keys = s.keys + 1]
    ELSE IF key[1] = "'"
         THEN [s EXCEPT !.typed = s.typed + 1, !.keys = s.keys + 1,
                        !.ordered = s.ordered /\ s.erased = 0]
    ELSE s

ToggleOverwrite(toggle) ==
    /\ \E t \in {toggleOverwrite(replaceStack, toggle)} :
        /\ replaceMode' = t.replaceMode
        /\ replaceStack' = t.replaceStack
    /\ session' = IF toggle
                  THEN [text |-> doc, pos |-> editorPos, typed |-> 0, erased |-> 0,
                        enters |-> 0, ordered |-> TRUE,
                        keys |-> IF session = Null THEN 0 ELSE session.keys]
                  ELSE session
    /\ lastCall' = [op |-> "toggleOverwrite", toggle |-> toggle, modeBefore |-> replaceMode,
                    stackBefore |-> replaceStack]
    /\ UNCHANGED <<conv, doc, editorPos, hostDecos, decorationIds, cursor, scan, attached>>
    /\ UNCHANGED <<marks, uid, created>>
    /\ UNCHANGED eventVars

KeyDown(e, cmd) ==
    /\ IF session = Null THEN TRUE ELSE session.keys < MaxKeys
    /\ \E out \in {handleKeyDown(doc, editorPos, replaceMode, replaceStack, attached, e, cmd)} :
        /\ doc' = out.doc
        /\ editorPos' = out.pos
        /\ replaceStack' = out.stack
        /\ session' = SessionAfter(session, out.key, out.key # <<>> /\ replaceMode = "true")
        /\ lastCall' = [op |-> "keyDown", e |-> e, cmd |-> cmd, key |-> out.key,
                        prevented |-> out.prevented, invoked |-> out.invoked,
                        propagated |-> out.propagated, docBefore |-> doc,
                        posBefore |-> editorPos, stackBefore |-> replaceStack,
                        modeBefore |-> replaceMode, attachedBefore |-> attached,
                        afterThrow |-> /\ lastCall # Null
                                       /\ lastCall.op = "keyDown"
                                       /\ lastCall.invoked /\ lastCall.cmd = "throws"]
    /\ UNCHANGED <<conv, hostDecos, decorationIds, cursor, scan, replaceMode, attached>>
    /\ UNCHANGED <<marks, uid, created>>
    /\ UNCHANGED eventVars

\* replace mode with a key map that binds none of the keys
NextReplace ==
    \/ \E toggle \in BOOLEAN : ToggleOverwrite(toggle)
    \/ \E e \in ReplaceKeyEvents : KeyDown(e, "none")

SpecReplace == InitReplace /\ [][NextReplace]_vars

---------------------------------------------------------------------------
(* Replace mode: claims *)

\* the session is k characters typed and then k Backspaces, no Enter
TypedThenErased ==
    /\ session # Null
    /\ replaceMode = "true"
    /\ session.ordered
    /\ session.enters = 0
    /\ session.typed = session.erased

\* C12: after replace mode is activated on a text T, typing k characters and
\* then pressing Backspace k times leaves the document equal to T, also when
\* typed characters landed at or past the end of the line.
C12_Reversible == TypedThenErased => doc = session.text

\* the same for the sessions in which every typed character overwrote one
C12_OverwritingReversible ==
    (TypedThenErased /\ Len(session.text) >= getOffsetAt(session.text, session.pos) + session.typed
        /\ \A i \in 1..session.typed :
              session.text[getOffsetAt(session.text, session.pos) + i] # "\n")
        => doc = session.text /\ editorPos = session.pos

\* a character typed at the end of the line is still there after as many
\* Backspaces as characters typed
C12_AppendedStays ==
    /\ TypedThenErased
    /\ session.typed = 1
    /\ Len(doc) = Len(session.text) + 1
    /\ lastCall.op = "keyDown" /\ lastCall.key = <<"Backspace">>
    /\ lastCall.stackBefore = Stack(<<>>)

\* the last call was a Backspace handed to the replace-mode emulator
BackspaceInReplaceMode ==
    /\ lastCall # Null /\ lastCall.op = "keyDown"
    /\ lastCall.key = <<"Backspace">>
    /\ lastCall.modeBefore = "true"

EmptyStack(stack) == stack = Undefined \/ stack = Stack(<<>>)

\* the document with the character before the position replaced by `item`
RestoredBefore(d, pos, item) ==
    SubSeq(d, 1, getOffsetAt(d, pos) - 1) \o item \o SubSeq(d, getOffsetAt(d, pos) + 1, Len(d))

\* C13: in replace mode a Backspace on an empty stack changes nothing (no
\* edit, no cursor move, the stack stays empty, no error); on a non-empty
\* stack it puts the popped character back at the position one before the
\* cursor, moves the cursor back by one and shrinks the stack by one.
C13_Backspace ==
    BackspaceInReplaceMode =>
        IF EmptyStack(lastCall.stackBefore)
        THEN /\ doc = lastCall.docBefore
             /\ editorPos = lastCall.posBefore
             /\ replaceStack = lastCall.stackBefore
             /\ ~lastCall.propagated
        ELSE /\ doc = RestoredBefore(lastCall.docBefore, lastCall.posBefore,
                         lastCall.stackBefore.items[Len(lastCall.stackBefore.items)])
             /\ getOffsetAt(doc, editorPos) = getOffsetAt(lastCall.docBefore, lastCall.posBefore) - 1
             /\ replaceStack = Stack(SubSeq(lastCall.stackBefore.items, 1,
                                            Len(lastCall.stackBefore.items) - 1))

\* the same, for a cursor that is not at the first column of its line
C13_BackspaceWithinLine ==
    (BackspaceInReplaceMode /\ lastCall.posBefore.column > 1) => C13_Backspace

\* a Backspace at the first column with a character on the stack: the
\* character is inserted in front of the line and the cursor stays
C13_BackspaceAtLineStart ==
    /\ BackspaceInReplaceMode
    /\ ~EmptyStack(lastCall.stackBefore)
    /\ lastCall.posBefore.column = 1
    /\ Len(doc) = Len(lastCall.docBefore) + 1
    /\ editorPos = lastCall.posBefore

\* the last call was an Enter handed to the replace-mode emulator
EnterInReplaceMode ==
    /\ lastCall # Null /\ lastCall.op = "keyDown"
    /\ lastCall.key = <<"Enter">>
    /\ lastCall.modeBefore = "true"

\* the document with `text` inserted at the position
InsertedAt(d, pos, text) ==
    SubSeq(d, 1, getOffsetAt(d, pos)) \o text \o SubSeq(d, getOffsetAt(d, pos) + 1, Len(d))

\* the character at the position, <<>> at the end of a line
CharacterUnder(d, pos) == getValueInRange(d, Range(pos.lineNumber, pos.column,
                                                   pos.lineNumber, pos.column + 1))

\* C14: in replace mode Enter inserts a line break at the cursor and
\* overwrites nothing: the character that was under the cursor is still in
\* the document, right behind the line break.
C14_EnterInserts ==
    EnterInReplaceMode => doc = InsertedAt(lastCall.docBefore, lastCall.posBefore, <<"\n">>)

\* the same, for a cursor at the end of its line
C14_EnterAtEndOfLine ==
    (EnterInReplaceMode /\ CharacterUnder(lastCall.docBefore, lastCall.posBefore) = <<>>)
        => doc = InsertedAt(lastCall.docBefore, lastCall.posBefore, <<"\n">>)

\* Enter took the place of the character under the cursor
C14_EnterOverwrote ==
    /\ EnterInReplaceMode
    /\ CharacterUnder(lastCall.docBefore, lastCall.posBefore) = <<"a">>
    /\ Len(doc) = Len(lastCall.docBefore)
    /\ \A i \in 1..Len(doc) : doc[i] # "a"
    /\ replaceStack = Stack(<<<<"a">>>>)

\* the last call was toggleOverwrite(true)
Activated == lastCall # Null /\ lastCall.op = "toggleOverwrite" /\ lastCall.toggle

\* C15: right after toggleOverwrite(true) the backspace stack is empty,
\* whatever came before, a second activation without a deactivation in
\* between included.
C15_ActivationEmptiesStack == Activated => EmptyStack(replaceStack)

\* the same, for an activation out of a mode that is not replace mode
C15_FirstActivation == (Activated /\ lastCall.modeBefore # "true") => EmptyStack(replaceStack)

\* replace mode activated again with an overwritten character on the stack
C15_StackKept ==
    /\ Activated
    /\ lastCall.modeBefore = "true"
    /\ replaceStack = Stack(<<<<"a">>>>)

---------------------------------------------------------------------------
(* Marks *)

\* new Marker(cm, id, line, ch): a host position that carries its id
Marker(id, line, ch) ==
    [id |-> id, lineNumber |-> line + 1, column |-> ch + 1, insertRight |-> FALSE]

\* the registry with the mark stored under the id
Registered(ms, id, m) == [i \in DOMAIN ms \cup {id} |-> IF i = id THEN m ELSE ms[i]]

\* setBookmark that hands out this.$uid without advancing it
setBookmarkSameId(ms, u, pos, options) ==
    Let([Marker(u, pos.line, pos.ch) EXCEPT
            !.insertRight = IF options = Undefined THEN TRUE ELSE ~options.insertLeft],
        LAMBDA bm : [marks |-> Registered(ms, bm.id, bm), uid |-> u, bm |-> bm])

\* setBookmark: [marks, uid, bm], bm the mark returned
setBookmark(ms, u, pos, options) ==
    Let([Marker(u, pos.line, pos.ch) EXCEPT
            !.insertRight = IF options = Undefined THEN TRUE ELSE ~options.insertLeft],
        LAMBDA bm : [marks |-> Registered(ms, bm.id, bm), uid |-> u + 1, bm |-> bm])

\* Marker.clear: delete this.cm.marks[this.id]
clear(ms, m) == [i \in DOMAIN ms \ {m.id} |-> ms[i]]

---------------------------------------------------------------------------
(* Marks specification *)

\* most bookmarks set in one behaviour
MaxMarks == 3

BookmarkPositions == {CmPos(0, 0), CmPos(1, 2)}
BookmarkOptions == {Undefined, [insertLeft |-> TRUE], [insertLeft |-> FALSE]}

InitMarks ==
    /\ doc = ExampleDoc
    /\ editorPos = Position(1, 1)
    /\ hostDecos = <<>>
    /\ decorationIds = NoDecorations
    /\ cursor = Null
    /\ lastCall = Null
    /\ conv = Null
    /\ scan = Null
    /\ InitAdapter

SetBookmark(pos, options) ==
    /\ uid < MaxMarks
    /\ \E r \in {setBookmark(marks, uid, pos, options)} :
        /\ marks' = r.marks
        /\ uid' = r.uid
        /\ created' = Append(created, r.bm)
        /\ lastCall' = [op |-> "setBookmark", id |-> r.bm.id]
    /\ UNCHANGED <<conv, doc, editorPos, hostDecos, decorationIds, cursor, scan>>
    /\ UNCHANGED <<replaceMode, replaceStack, session, attached>>
    /\ UNCHANGED eventVars

\* clear() on a mark setBookmark returned, cleared before or not
Clear(m) ==
    /\ marks' = clear(marks, m)
    /\ lastCall' = [op |-> "clear", id |-> m.id]
    /\ UNCHANGED <<conv, doc, editorPos, hostDecos, decorationIds, cursor, scan>>
    /\ UNCHANGED <<replaceMode, replaceStack, session, attached, uid, created>>
    /\ UNCHANGED eventVars

NextMarks ==
    \/ \E pos \in BookmarkPositions, options \in BookmarkOptions : SetBookmark(pos, options)
    \/ \E i \in 1..Len(created) : Clear(created[i])

SpecMarks == InitMarks /\ [][NextMarks]_vars

\* C16: after m.clear() the id of m is not in the registry; every id in the
\* registry maps to the mark that carries that id; and every bookmark gets an
\* id greater than the id of every bookmark set before it.
C16_MarkLifecycle ==
    /\ (lastCall # Null /\ lastCall.op = "clear") => lastCall.id \notin DOMAIN marks
    /\ \A id \in DOMAIN marks : marks[id].id = id /\ \E i \in 1..Len(created) : created[i] = marks[id]
    /\ \A i, j \in 1..Len(created) : i < j => created[i].id < created[j].id

\* three bookmarks set, the second cleared: the other two are registered
C16_Witness ==
    /\ Len(created) = 3
    /\ lastCall.op = "clear" /\ lastCall.id = created[2].id
    /\ DOMAIN marks = {created[1].id, created[3].id}

---------------------------------------------------------------------------
(* Highlight specification *)

\* the range lists handed to highlightRanges: none, one, two, one twice
HighlightedRanges ==
    {<<>>, <<Range(1, 1, 1, 3)>>, <<Range(1, 3, 1, 4)>>,
     <<Range(1, 1, 1, 3), Range(1, 3, 1, 4)>>, <<Range(1, 3, 1, 4), Range(1, 3, 1, 4)>>}

InitHighlight ==
    /\ doc = ExampleDoc
    /\ editorPos = Position(1, 1)
    /\ hostDecos = <<>>
    /\ decorationIds = NoDecorations
    /\ cursor = Null
    /\ lastCall = Null
    /\ conv = Null
    /\ scan = Null
    /\ InitAdapter

\* the call is recorded with the ranges most recently given for each class
\* (none for a class not highlighted yet) and the decorations before it
HighlightRanges(ranges, className) ==
    /\ \E r \in {highlightRanges([decos |-> hostDecos, ids |-> decorationIds],
                                 ranges, className)} :
        /\ hostDecos' = r.decos
        /\ decorationIds' = r.ids
    /\ lastCall' = [op |-> "highlightRanges", className |-> className,
                    recent |-> [c \in HighlightClasses |->
                                   IF c = className THEN ranges
                                   ELSE IF lastCall = Null THEN <<>> ELSE lastCall.recent[c]],
                    decosBefore |-> hostDecos, idsBefore |-> decorationIds]
    /\ UNCHANGED <<conv, doc, editorPos, cursor, scan>>
    /\ UNCHANGED adapterVars

NextHighlight ==
    \E ranges \in HighlightedRanges, className \in HighlightClasses :
        HighlightRanges(ranges, className)

SpecHighlight == InitHighlight /\ [][NextHighlight]_vars

\* C17: after any sequence of highlightRanges calls the host's decorations of
\* a class are exactly the ranges of the most recent call for that class, one
\* decoration per range, held by the adapter under that class; and a call
\* for one class leaves the decorations of every other class as they were.
C17_DecorationReplacement ==
    (lastCall # Null /\ lastCall.op = "highlightRanges") =>
        /\ \A c \in HighlightClasses :
            /\ SeqToSet(decorationIds[c]) = DecorationsOf(c)
            /\ Len(decorationIds[c]) = Len(lastCall.recent[c])
            /\ \A k \in 1..Len(decorationIds[c]) :
                  hostDecos[decorationIds[c][k]].range = lastCall.recent[c][k]
        /\ \A c \in HighlightClasses \ {lastCall.className} :
            /\ decorationIds[c] = lastCall.idsBefore[c]
            /\ \A i \in DecorationsOf(c) : hostDecos[i] = lastCall.decosBefore[i]

\* a class highlighted twice, another class highlighted in between
C17_Witness ==
    /\ lastCall # Null /\ lastCall.op = "highlightRanges"
    /\ lastCall.className = "findMatch"
    /\ lastCall.recent["findMatch"] = <<Range(1, 3, 1, 4)>>
    /\ lastCall.recent["currentFindMatch"] = <<Range(1, 1, 1, 3), Range(1, 3, 1, 4)>>
    /\ Cardinality({i \in DOMAIN lastCall.decosBefore :
                       lastCall.decosBefore[i].className = "findMatch"}) = 2

---------------------------------------------------------------------------
(* Event registry *)

\* on(event, handler)
on(ls, event, handler) ==
    [e \in DOMAIN ls \cup {event} |->
        IF e = event THEN (IF event \in DOMAIN ls THEN ls[event] ELSE <<>>) \o <<handler>>
        ELSE ls[e]]

\* listeners.filter((l) => l !== handler)
RECURSIVE Without(_, _)
Without(hs, handler) ==
    IF hs = <<>> THEN <<>>
    ELSE (IF Head(hs) = handler THEN <<>> ELSE <<Head(hs)>>) \o Without(Tail(hs), handler)

\* filter that drops the first registration of the handler only
RECURSIVE WithoutFirst(_, _)
WithoutFirst(hs, handler) ==
    IF hs = <<>> THEN <<>>
    ELSE IF Head(hs) = handler THEN Tail(hs)
    ELSE <<Head(hs)>> \o WithoutFirst(Tail(hs), handler)

\* off that removes one registration of the handler
offFirstOnly(ls, event, handler) ==
    IF event \notin DOMAIN ls THEN ls
    ELSE [ls EXCEPT ![event] = WithoutFirst(ls[event], handler)]

\* off(event, handler)
off(ls, event, handler) ==
    IF event \notin DOMAIN ls THEN ls
    ELSE [ls EXCEPT ![event] = Without(ls[event], handler)]

\* dispatch(signal): the handlers it invokes, in the order it invokes them.
\* The handlers here return without calling back into the adapter.
dispatch(ls, signal) == IF signal \notin DOMAIN ls THEN <<>> ELSE ls[signal]

---------------------------------------------------------------------------
(* Event registry specification *)

\* most on() and off() calls in one behaviour
MaxCalls == 3

Events == {"vim-mode-change", "dispose"}
Handlers == {"h1", "h2"}

InitEvents ==
    /\ doc = ExampleDoc
    /\ editorPos = Position(1, 1)
    /\ hostDecos = <<>>
    /\ decorationIds = NoDecorations
    /\ cursor = Null
    /\ lastCall = Null
    /\ conv = Null
    /\ scan = Null
    /\ InitAdapter

On(event, handler) ==
    /\ Len(calls) < MaxCalls
    /\ listeners' = on(listeners, event, handler)
    /\ calls' = Append(calls, [op |-> "on", event |-> event, handler |-> handler])
    /\ lastCall' = [op |-> "on", event |-> event, handler |-> handler]
    /\ UNCHANGED <<conv, doc, editorPos, hostDecos, decorationIds, cursor, scan>>
    /\ UNCHANGED <<replaceMode, replaceStack, session, attached, marks, uid, created, selections, opVars>>

Off(event, handler) ==
    /\ Len(calls) < MaxCalls
    /\ listeners' = off(listeners, event, handler)
    /\ calls' = Append(calls, [op |-> "off", event |-> event, handler |-> handler])
    /\ lastCall' = [op |-> "off", event |-> event, handler |-> handler]
    /\ UNCHANGED <<conv, doc, editorPos, hostDecos, decorationIds, cursor, scan>>
    /\ UNCHANGED <<replaceMode, replaceStack, session, attached, marks, uid, created, selections, opVars>>

Dispatch(signal) ==
    /\ lastCall' = [op |-> "dispatch", event |-> signal, invoked |-> dispatch(listeners, signal)]
    /\ UNCHANGED <<conv, doc, editorPos, hostDecos, decorationIds, cursor, scan>>
    /\ UNCHANGED adapterVars

NextEvents ==
    \/ \E event \in Events, handler \in Handlers : On(event, handler)
    \/ \E event \in Events, handler \in Handlers : Off(event, handler)
    \/ \E signal \in Events : Dispatch(signal)

SpecEvents == InitEvents /\ [][NextEvents]_vars

\* the handlers in force for an event after the first n calls: on() adds a
\* registration at the end, off() takes every registration of its handler away
RECURSIVE InForce(_, _)
InForce(event, n) ==
    IF n = 0 THEN <<>>
    ELSE IF calls[n].event # event THEN InForce(event, n - 1)
    ELSE IF calls[n].op = "on" THEN Append(InForce(event, n - 1), calls[n].handler)
    ELSE SelectSeq(InForce(event, n - 1), LAMBDA h : h # calls[n].handler)

C18_OncePerRegistration ==
    /\ lastCall # Null /\ lastCall.op = "dispatch"
    /\ lastCall.invoked = <<"h1", "h2", "h1">>

---------------------------------------------------------------------------
(* Key-down specification *)

\* the key-downs of the specification: a letter, the letter with Ctrl held,
\* Enter, Backspace, Escape, and a letter and an Escape whose default an
\* earlier listener has prevented
KeyEvents ==
    {KeyEvent("KeyX", "x", FALSE, FALSE), KeyEvent("KeyX", "x", TRUE, FALSE),
     KeyEvent("Enter", "Enter", FALSE, FALSE), KeyEvent("Backspace", "Backspace", FALSE, FALSE),
     KeyEvent("Escape", "Escape", FALSE, FALSE), KeyEvent("KeyX", "x", FALSE, TRUE),
     KeyEvent("Escape", "Escape", FALSE, TRUE)}

\* a constructed adapter on which on("dispose", h1) and setBookmark({line: 0,
\* ch: 0}) have been called
InitKeys ==
    /\ doc = <<"a", "b">>
    /\ editorPos = Position(1, 1)
    /\ hostDecos = <<>>
    /\ decorationIds = NoDecorations
    /\ cursor = Null
    /\ lastCall = Null
    /\ conv = Null
    /\ scan = Null
    /\ replaceMode = "undefined"
    /\ replaceStack = Undefined
    /\ session = Null
    /\ attached = FALSE
    /\ \E r \in {setBookmark([id \in {} |-> Null], 0, CmPos(0, 0), Undefined)} :
        /\ marks = r.marks
        /\ uid = r.uid
        /\ created = <<r.bm>>
    /\ listeners = on([event \in {} |-> <<>>], "dispose", "h1")
    /\ calls = <<[op |-> "on", event |-> "dispose", handler |-> "h1"]>>
    /\ selections = <<>>
    /\ curOp = EmptyOp
    /\ inVirtualSelectionMode = FALSE

NextKeys ==
    \/ Attach
    \/ \E toggle \in BOOLEAN : ToggleOverwrite(toggle)
    \/ \E e \in KeyEvents, cmd \in Commands : KeyDown(e, cmd)

SpecKeys == InitKeys /\ [][NextKeys]_vars

\* the last call was a key-down whose command threw
CommandThrew ==
    /\ lastCall # Null /\ lastCall.op = "keyDown"
    /\ lastCall.invoked /\ lastCall.cmd = "throws"

\* C19: when the command the key map gives for a key throws, the error does
\* not leave handleKeyDown; the listeners, the marks and the attached flag
\* are as before the key-down and the document, the cursor and the replace
\* stack are as the same key-down leaves them with a command that returns;
\* and the next key-down is handled as any other: its key is normalized and
\* its command invoked.
C19_FaultBarrier ==
    /\ CommandThrew =>
        /\ ~lastCall.propagated
        /\ listeners = on([event \in {} |-> <<>>], "dispose", "h1")
        /\ DOMAIN marks = {0} /\ created = <<marks[0]>>
        /\ attached = lastCall.attachedBefore
        /\ \E r \in {handleKeyDown(lastCall.docBefore, lastCall.posBefore, lastCall.modeBefore,
                                   lastCall.stackBefore, lastCall.attachedBefore,
                                   lastCall.e, "returns")} :
              doc = r.doc /\ editorPos = r.pos /\ replaceStack = r.stack
    /\ (lastCall # Null /\ lastCall.op = "keyDown" /\ lastCall.afterThrow
            /\ ~(lastCall.e.defaultPrevented /\ lastCall.e.keyCode # "Escape")) =>
        /\ lastCall.key = monacoToCmKey(lastCall.e)
        /\ lastCall.cmd # "none" => lastCall.invoked /\ lastCall.prevented

\* a command threw in replace mode after the emulator had overwritten a
\* character, and the command of the next key-down was invoked
C19_Witness ==
    /\ lastCall # Null /\ lastCall.op = "keyDown"
    /\ lastCall.afterThrow /\ lastCall.invoked
    /\ lastCall.key = <<"Ctrl-", "x">>
    /\ replaceStack = Stack(<<<<"a">>>>)
    /\ doc = <<"x", "b">>

---------------------------------------------------------------------------
(* Selections *)

\* host: new Selection(selectionStart..., position...): where the selection
\* was started and where its cursor is; as a range it runs from the lesser
\* of the two to the greater
Selection(selectionStart, position) ==
    [selectionStart |-> selectionStart, position |-> position]

SelectionStart(sel) ==
    IF isBeforeOrEqual(sel.selectionStart, sel.position) THEN sel.selectionStart ELSE sel.position
SelectionEnd(sel) ==
    IF isBeforeOrEqual(sel.selectionStart, sel.position) THEN sel.position ELSE sel.selectionStart

isEmpty(sel) == sel.selectionStart = sel.position

\* Selection.getDirection
getDirection(sel) == IF sel.selectionStart = SelectionStart(sel) THEN "LTR" ELSE "RTL"

\* Range.fromPositions
RangeFromPositions(start, end) == Range(start.lineNumber, start.column, end.lineNumber, end.column)

\* host: editor.setSelection given a Range: the selection from the start of
\* the range to its end, clipped to the document
EditorSetSelection(d, range) ==
    <<Selection(validatePosition(d, getStartPosition(range)),
                validatePosition(d, getEndPosition(range)))>>

\* host: editor.setSelections given Selection objects, the first one primary
EditorSetSelections(d, sels) ==
    [k \in 1..Len(sels) |-> Selection(validatePosition(d, sels[k].selectionStart),
                                      validatePosition(d, sels[k].position))]

\* host: editor.getSelections() / getSelection() / getPosition()
EditorSelections == IF selections = <<>> THEN <<Selection(editorPos, editorPos)>> ELSE selections

getAnchorForSelection(sel) ==
    IF isEmpty(sel) THEN sel.position
    ELSE IF getDirection(sel) = "LTR" THEN SelectionStart(sel) ELSE SelectionEnd(sel)

getHeadForSelection(sel) ==
    IF isEmpty(sel) THEN sel.position
    ELSE IF getDirection(sel) = "LTR" THEN SelectionEnd(sel) ELSE SelectionStart(sel)

\* getCursor(type) over the host's selections; type is "anchor", "head" or
\* "null"
getCursor(sels, type) ==
    IF type = "null" THEN toCmPos(sels[1].position)
    ELSE IF isEmpty(sels[1]) THEN toCmPos(sels[1].position)
    ELSE IF type = "anchor" THEN toCmPos(getAnchorForSelection(sels[1]))
    ELSE toCmPos(getHeadForSelection(sels[1]))

clipPos(d, pos) == toCmPos(validatePosition(d, toMonacoPos(pos)))

listSelections(d, sels, virtualSelection) ==
    IF Len(sels) = 0 \/ virtualSelection
    THEN <<[anchor |-> getCursor(sels, "anchor"), head |-> getCursor(sels, "head")]>>
    ELSE [k \in 1..Len(sels) |->
            [anchor |-> clipPos(d, toCmPos(getAnchorForSelection(sels[k]))),
             head |-> clipPos(d, toCmPos(getHeadForSelection(sels[k])))]]

\* setSelection(frm, dest): the host's selections after it
setSelection(d, frm, dest) ==
    EditorSetSelection(d, RangeFromPositions(toMonacoPos(frm), toMonacoPos(dest)))

\* sels.push(sels.splice(primIndex, 1)[0]) when sels[primIndex] is there;
\* primIndex counts from 0 and may be Undefined
PrimaryLast(sels, primIndex) ==
    IF primIndex = Undefined THEN sels
    ELSE IF primIndex.index + 1 \in 1..Len(sels)
         THEN SubSeq(sels, 1, primIndex.index) \o SubSeq(sels, primIndex.index + 2, Len(sels))
                  \o <<sels[primIndex.index + 1]>>
         ELSE sels

\* setSelections(selections, primIndex): the host's selections after it
setSelections(d, current, list, primIndex) ==
    Let(PrimaryLast([k \in 1..Len(list) |->
                        IF Len(current) > 0
                        THEN Selection(toMonacoPos(list[k].anchor), toMonacoPos(list[k].head))
                        ELSE Selection(toMonacoPos(list[k].head), toMonacoPos(list[k].anchor))],
                    primIndex),
        LAMBDA sels : IF Len(sels) = 0 THEN current ELSE EditorSetSelections(d, sels))

\* Array.prototype.join
RECURSIVE Join(_, _)
Join(list, separator) ==
    IF list = <<>> THEN <<>>
    ELSE IF Len(list) = 1 THEN list[1]
    ELSE list[1] \o separator \o Join(Tail(list), separator)

\* host: model.getValueInRange(sel) for each of the editor's selections
SelectionValues(d, sels) ==
    [k \in 1..Len(sels) |-> getValueInRange(d, RangeFromPositions(SelectionStart(sels[k]), SelectionEnd(sels[k])))]

\* the values that pass `if (value)`, in selection order
RECURSIVE Truthy(_)
Truthy(values) ==
    IF values = <<>> THEN <<>>
    ELSE IF values[1] # <<>> THEN <<values[1]>> \o Truthy(Tail(values))
    ELSE Truthy(Tail(values))

\* getSelections(): every non-empty value is pushed
getSelections(d, sels) == Truthy(SelectionValues(d, sels))

\* getSelection(): `list.push()` is called with no argument, so the list
\* stays as it was for every value, and the empty list is joined
RECURSIVE PushNothing(_, _)
PushNothing(list, values) ==
    IF values = <<>> THEN list
    ELSE PushNothing(list, Tail(values))

getSelection(d, sels) == Join(PushNothing(<<>>, Truthy(SelectionValues(d, sels))), <<"\n">>)

---------------------------------------------------------------------------
(* Selection specification *)

SelectionDocs == {<<"a", "b", "\n", "a", "b">>, <<"a", "\n", "b", "\n", "a">>}

CmSelection(anchor, head) == [anchor |-> anchor, head |-> head]

\* the lists handed to setSelections: none, one selection forward, one
\* backward, one empty, and two that do not touch, in both orders
SelectionLists ==
    {<<>>,
     <<CmSelection(CmPos(0, 0), CmPos(0, 1))>>,
     <<CmSelection(CmPos(1, 1), CmPos(0, 1))>>,
     <<CmSelection(CmPos(1, 0), CmPos(1, 0))>>,
     <<CmSelection(CmPos(0, 0), CmPos(0, 1)), CmSelection(CmPos(1, 1), CmPos(1, 0))>>,
     <<CmSelection(CmPos(1, 1), CmPos(1, 0)), CmSelection(CmPos(0, 1), CmPos(0, 0))>>}

PrimIndexes == {Undefined, [index |-> 0], [index |-> 1]}

InitSelect ==
    /\ doc \in SelectionDocs
    /\ editorPos = Position(1, 1)
    /\ hostDecos = <<>>
    /\ decorationIds = NoDecorations
    /\ cursor = Null
    /\ lastCall = Null
    /\ conv = Null
    /\ scan = Null
    /\ InitAdapter

SetSelection(frm, dest) ==
    /\ selections' = setSelection(doc, frm, dest)
    /\ editorPos' = selections'[1].position
    /\ lastCall' = [op |-> "setSelection", list |-> <<CmSelection(frm, dest)>>]
    /\ UNCHANGED <<conv, doc, hostDecos, decorationIds, cursor, scan>>
    /\ UNCHANGED <<replaceMode, replaceStack, session, attached, marks, uid, created>>
    /\ UNCHANGED <<listeners, calls, opVars>>

SetSelections(list, primIndex) ==
    /\ selections' = setSelections(doc, EditorSelections, list, primIndex)
    /\ editorPos' = selections'[1].position
    /\ lastCall' = [op |-> "setSelections", list |-> list]
    /\ UNCHANGED <<conv, doc, hostDecos, decorationIds, cursor, scan>>
    /\ UNCHANGED <<replaceMode, replaceStack, session, attached, marks, uid, created>>
    /\ UNCHANGED <<listeners, calls, opVars>>

GetSelection ==
    /\ lastCall' = [op |-> "getSelection", value |-> getSelection(doc, EditorSelections),
                    values |-> getSelections(doc, EditorSelections)]
    /\ UNCHANGED <<conv, doc, editorPos, hostDecos, decorationIds, cursor, scan, adapterVars>>

NextSelect ==
    \/ GetSelection
    \/ \E p \in AllPositions(doc), q \in AllPositions(doc) : SetSelection(toCmPos(p), toCmPos(q))
    \/ \E list \in SelectionLists, primIndex \in PrimIndexes : SetSelections(list, primIndex)

SpecSelect == InitSelect /\ [][NextSelect]_vars

\* the last call set at least one selection
SelectionSet ==
    /\ lastCall # Null /\ lastCall.op \in {"setSelection", "setSelections"}
    /\ lastCall.list # <<>>

\* C20: after setSelection(anchor, head) or setSelections([...]) with
\* positions of the document, listSelections() yields the anchor and head
\* of every selection set, each as it was set, and getCursor("anchor") and
\* getCursor("head") yield the anchor and head of one of them.
C20_DirectionPreserved ==
    SelectionSet =>
        /\ SeqToSet(listSelections(doc, EditorSelections, FALSE)) = SeqToSet(lastCall.list)
        /\ CmSelection(getCursor(EditorSelections, "anchor"), getCursor(EditorSelections, "head"))
               \in SeqToSet(lastCall.list)

\* the same for setSelections alone
C20_SetSelectionsPreserves ==
    (SelectionSet /\ lastCall.op = "setSelections") => C20_DirectionPreserved

\* setSelection with the anchor behind the head: the two come back swapped
C20_Swapped ==
    /\ SelectionSet /\ lastCall.op = "setSelection"
    /\ lastCall.list = <<CmSelection(CmPos(1, 1), CmPos(0, 1))>>
    /\ getCursor(EditorSelections, "anchor") = CmPos(0, 1)
    /\ getCursor(EditorSelections, "head") = CmPos(1, 1)
    /\ listSelections(doc, EditorSelections, FALSE) = <<CmSelection(CmPos(0, 1), CmPos(1, 1))>>

\* C21: getSelection() returns the texts of the host's non-empty selections,
\* in selection order, joined by a newline, and the empty string only when no
\* selection contains text.
C21_JoinedSelections ==
    (lastCall # Null /\ lastCall.op = "getSelection") =>
        /\ lastCall.value = Join(lastCall.values, <<"\n">>)
        /\ (lastCall.value = <<>> <=> lastCall.values = <<>>)

\* getSelection() was called while two selections held text
C21_TwoSelectionsWithText ==
    /\ lastCall # Null /\ lastCall.op = "getSelection"
    /\ Len(lastCall.values) = 2
    /\ lastCall.value = <<>>

\* getSelection() never answers the empty string while a selection holds text
C21_TextReturned ==
    (lastCall # Null /\ lastCall.op = "getSelection" /\ lastCall.values # <<>>) =>
        lastCall.value # <<>>

---------------------------------------------------------------------------
(* Key-name specification: monacoToCmKey is applied to one keyboard event *)

\* the key codes of the events: a letter, a digit, two arrows, a key named by
\* the browser, Escape, Space, Enter and the four modifier keys
NamedKeyCodes ==
    {"KeyA", "Digit1", "LeftArrow", "UpArrow", "BracketLeft", "Escape", "Space", "Enter"}
        \cup KeyModifiers

\* the values of e.browserEvent.key
BrowserKeys == {"a", "A", "[", " ", "Escape", "ArrowUp"}

NamedKeyEvents ==
    {[keyCode |-> keyCode, key |-> key, altKey |-> alt, ctrlKey |-> ctrl,
      metaKey |-> meta, shiftKey |-> shift, defaultPrevented |-> FALSE] :
        keyCode \in NamedKeyCodes, key \in BrowserKeys,
        alt \in BOOLEAN, ctrl \in BOOLEAN, meta \in BOOLEAN, shift \in BOOLEAN}

InitKeyNames ==
    /\ conv \in {[kind |-> "key", e |-> e, name |-> <<>>, steps |-> 0] : e \in NamedKeyEvents}
    /\ doc = <<>>
    /\ editorPos = Position(1, 1)
    /\ hostDecos = <<>>
    /\ decorationIds = NoDecorations
    /\ cursor = Null
    /\ lastCall = Null
    /\ scan = Null
    /\ InitAdapter

MonacoToCmKey ==
    /\ conv.steps = 0
    /\ conv' = [conv EXCEPT !.name = monacoToCmKey(conv.e), !.steps = 1]
    /\ UNCHANGED <<doc, editorPos, hostDecos, decorationIds, cursor, lastCall, scan>>
    /\ UNCHANGED adapterVars

SpecKeyNames == InitKeyNames /\ [][MonacoToCmKey]_vars

\* monacoToCmKey has named the event
Named == conv.steps = 1

\* the prefixes of the modifiers held, the one applied last first
HeldPrefixes(e) ==
    (IF e.shiftKey THEN <<"Shift-">> ELSE <<>>) \o (IF e.metaKey THEN <<"Meta-">> ELSE <<>>)
        \o (IF e.ctrlKey THEN <<"Ctrl-">> ELSE <<>>) \o (IF e.altKey THEN <<"Alt-">> ELSE <<>>)

\* C22: an Escape key event is named "Esc" behind one prefix for each
\* modifier held, whatever the browser's character value; the name is exactly
\* "Esc" if and only if no modifier is held.
C22_EscapeName ==
    (Named /\ conv.e.keyCode = "Escape") =>
        /\ conv.name = HeldPrefixes(conv.e) \o <<"Esc">>
        /\ (conv.name = <<"Esc">>
                <=> ~(conv.e.altKey \/ conv.e.ctrlKey \/ conv.e.metaKey \/ conv.e.shiftKey))

\* Escape with Ctrl and Shift held has been named "Shift-Ctrl-Esc"
C22_Witness ==
    /\ Named /\ conv.e.keyCode = "Escape"
    /\ conv.e.ctrlKey /\ conv.e.shiftKey /\ ~conv.e.altKey /\ ~conv.e.metaKey
    /\ conv.name = <<"Shift-", "Ctrl-", "Esc">>

\* C22 as stated: an Escape key event is named exactly "Esc" for every
\* combination of the modifier flags and every browser character value
C22_AlwaysEsc ==
    (Named /\ conv.e.keyCode = "Escape") => conv.name = <<"Esc">>

\* the event is the physical key `a` giving the character "a"
PressedA == conv.e.keyCode = "KeyA" /\ conv.e.key = "a"

OnlyCtrl == conv.e.ctrlKey /\ ~conv.e.altKey /\ ~conv.e.metaKey /\ ~conv.e.shiftKey

NoModifier == ~conv.e.ctrlKey /\ ~conv.e.altKey /\ ~conv.e.metaKey /\ ~conv.e.shiftKey

\* C23: the key `a` with only Ctrl held is named "Ctrl-a", the prefix in
\* front of the bare lower-case letter, and with no modifier it is named "'a'".
C23_CtrlLetter ==
    (Named /\ PressedA) =>
        /\ OnlyCtrl => conv.name = <<"Ctrl-", "a">>
        /\ NoModifier => conv.name = <<"'", "a", "'">>

\* Ctrl+a has been named
C23_Witness == Named /\ PressedA /\ OnlyCtrl /\ conv.name = <<"Ctrl-", "a">>

\* C23 as stated: the key `a` with only Ctrl held is named "Ctrl-'a'", and
\* with no modifier "'a'"
C23_CtrlQuoted ==
    (Named /\ PressedA) =>
        /\ OnlyCtrl => conv.name = <<"Ctrl-", "'", "a", "'">>
        /\ NoModifier => conv.name = <<"'", "a", "'">>

\* the events that reach the modifier step and take its prefixing branch
Prefixing(e) ==
    /\ e.keyCode \notin KeyModifiers
    /\ e.altKey \/ e.ctrlKey \/ e.metaKey \/ SkipOnlyShiftCheck(e)

\* the name less its leading prefixes
RECURSIVE Unprefixed(_)
Unprefixed(name) ==
    IF name # <<>> /\ name[1] \in {"Alt-", "Ctrl-", "Meta-", "Shift-"}
    THEN Unprefixed(Tail(name)) ELSE name

\* C28: when alt, ctrl or meta is held or the key is modifier-significant,
\* the name carries one prefix for each modifier held and none for a modifier
\* not held, and they stand Shift-, Meta-, Ctrl-, Alt- from the left: the
\* prefix applied later is to the left of the one applied earlier.
C28_Prefixes ==
    (Named /\ Prefixing(conv.e)) =>
        /\ SubSeq(conv.name, 1, Len(HeldPrefixes(conv.e))) = HeldPrefixes(conv.e)
        /\ Unprefixed(conv.name) = SubSeq(conv.name, Len(HeldPrefixes(conv.e)) + 1, Len(conv.name))
        /\ Unprefixed(conv.name) # <<>>
        /\ (conv.e.keyCode = "UpArrow" /\ conv.e.ctrlKey /\ conv.e.shiftKey
                /\ ~conv.e.altKey /\ ~conv.e.metaKey)
            => conv.name = <<"Shift-", "Ctrl-", "Up">>

\* Ctrl and Shift held on the arrow key Up
C28_Witness ==
    /\ Named /\ conv.e.keyCode = "UpArrow"
    /\ conv.e.ctrlKey /\ conv.e.shiftKey /\ ~conv.e.altKey /\ ~conv.e.metaKey
    /\ conv.name = <<"Shift-", "Ctrl-", "Up">>

---------------------------------------------------------------------------
(* Key-down handler: ignored events *)

\* the last call was a key-down the handler has to ignore
IgnoredKeyDown ==
    /\ lastCall # Null /\ lastCall.op = "keyDown"
    /\ \/ ~lastCall.attachedBefore
       \/ lastCall.e.defaultPrevented /\ lastCall.e.keyCode # "Escape"

\* the last call was an Escape already prevented, on an attached adapter
PreventedEscape ==
    /\ lastCall # Null /\ lastCall.op = "keyDown"
    /\ lastCall.attachedBefore
    /\ lastCall.e.defaultPrevented /\ lastCall.e.keyCode = "Escape"

\* C27: a key-down on an adapter that is not attached, or whose default was
\* already prevented and which is not Escape, changes nothing: no edit, the
\* replace stack as before, no command invoked, preventDefault and
\* stopPropagation not called.  An Escape whose default was already
\* prevented is handled on an attached adapter: it is named "Esc" and a
\* command bound to it is invoked.
C27_Ignored ==
    /\ IgnoredKeyDown =>
            /\ doc = lastCall.docBefore /\ editorPos = lastCall.posBefore
            /\ replaceStack = lastCall.stackBefore
            /\ ~lastCall.invoked /\ ~lastCall.prevented
    /\ PreventedEscape =>
            /\ lastCall.key = <<"Esc">>
            /\ lastCall.cmd # "none" => (lastCall.invoked /\ lastCall.prevented)

\* in replace mode, on an attached adapter, a letter bound to a command
\* arrived with its default prevented and was ignored
C27_Witness ==
    /\ IgnoredKeyDown
    /\ lastCall.attachedBefore /\ lastCall.modeBefore = "true"
    /\ lastCall.e.keyCode = "KeyX" /\ lastCall.cmd = "returns"
    /\ ~lastCall.invoked /\ doc = lastCall.docBefore

\* a prevented Escape bound to a command was handled
C27_EscapeHandled ==
    PreventedEscape /\ lastCall.cmd = "returns" /\ lastCall.invoked

---------------------------------------------------------------------------
(* Bracket scanner: the ceiling and the direction *)

\* C24: scanForBracket makes at most MaxIterations + 1 host searches in one
\* call; a call that has made them all without an answer reports no-match,
\* and every call ends, with a position or with no-match, whatever the
\* document and the start position.
C24_SearchCeiling ==
    scan # Null =>
        /\ scan.searches >= 1 /\ scan.searches <= MaxIterations + 1
        /\ scan.result = Undefined \/ DOMAIN scan.result = {"pos"}
        /\ (scan.searches = MaxIterations + 1 /\ doc = NestedDoc(MaxIterations \div 2 + 1)
                /\ scan.pos = CmPos(0, 0) /\ scan.dir = 1)
            => scan.result = Undefined

\* a scan gave up after MaxIterations + 1 searches
C24_Witness ==
    /\ scan # Null
    /\ scan.searches = MaxIterations + 1
    /\ scan.result = Undefined

\* C24 as stated: scanForBracket makes at most MaxIterations host searches
C24_TenSearches ==
    scan # Null => scan.searches <= MaxIterations

\* the offsets of the position a scan returned and of the position it began at
ScanOffsets ==
    [answer |-> getOffsetAt(doc, toMonacoPos(scan.result.pos)),
     start |-> getOffsetAt(doc, toMonacoPos(scan.pos))]

\* C30: a forward scan never returns a position before its start position
\* and a backward scan never returns a position after it, also when the
\* host's search wraps around the end or the start of the document.
C30_DirectionRespected ==
    (scan # Null /\ scan.result # Undefined) =>
        /\ scan.dir = 1 => ScanOffsets.answer >= ScanOffsets.start
        /\ scan.dir = -1 => ScanOffsets.answer <= ScanOffsets.start

\* a backward scan has returned a position behind the one it began at
C30_BackwardWrapped ==
    /\ scan # Null /\ scan.result # Undefined
    /\ scan.dir = -1
    /\ ScanOffsets.answer > ScanOffsets.start

\* a forward scan of ")a" from ch 1 has returned the bracket at ch 0
C30_ForwardWrapped ==
    /\ scan # Null
    /\ doc = <<")", "a">> /\ scan.dir = 1 /\ scan.pos = CmPos(0, 1)
    /\ scan.result = [pos |-> CmPos(0, 0)]

---------------------------------------------------------------------------
(* Content changes *)

\* changes.reduce(...): the text of each host change, in order
ChangeTexts(changes) == [k \in 1..Len(changes) |-> changes[k].text]

\* the change record handleChange builds
ChangeRecord(e) == [text |-> ChangeTexts(e.changes), origin |-> "+input", next |-> 0]

\* if (!curOp.changeHandlers) curOp.changeHandlers = this.listeners.change?.slice():
\* an array, empty or not, is kept; undefined is taken again
SnapshotHandlers(op, ls) ==
    IF op.changeHandlers # Undefined THEN op
    ELSE [op EXCEPT !.changeHandlers =
              IF "change" \in DOMAIN ls THEN [handlers |-> ls["change"]] ELSE Undefined]

\* the linking were the record assigned to lastChange before the target of
\* `.next =` is looked up: the new record is made its own successor
LinkChangeToItself(op, change) ==
    Let(Len(op.records) + 1, LAMBDA n :
        IF op.lastChange = 0
        THEN [op EXCEPT !.records = Append(@, change), !.change = n, !.lastChange = n]
        ELSE [op EXCEPT !.records = Append(@, [change EXCEPT !.next = n]), !.lastChange = n])

\* curOp.lastChange = curOp.change = change, or
\* curOp.lastChange.next = curOp.lastChange = change: the record that was
\* lastChange is looked up first, lastChange is assigned, then its next is set
LinkChange(op, change) ==
    Let(Len(op.records) + 1, LAMBDA n :
        IF op.lastChange = 0
        THEN [op EXCEPT !.records = Append(@, change), !.change = n, !.lastChange = n]
        ELSE [op EXCEPT !.records = Append([@ EXCEPT ![op.lastChange].next = n], change),
                        !.lastChange = n])

\* handleChange: the operation context it leaves and the handlers that
\* dispatch("change") invoked
handleChange(op, ls, virtualSelection, e) ==
    IF virtualSelection
    THEN [curOp |-> SnapshotHandlers(op, ls), invoked |-> <<>>]
    ELSE [curOp |-> LinkChange(SnapshotHandlers(op, ls), ChangeRecord(e)),
          invoked |-> dispatch(ls, "change")]

---------------------------------------------------------------------------
(* Content-change specification *)

\* the notifications of the host: one change or two
ChangeEvents ==
    {[changes |-> <<[text |-> "a"]>>], [changes |-> <<[text |-> "b"]>>],
     [changes |-> <<[text |-> "a"], [text |-> "b"]>>]}

InitChange ==
    /\ doc = <<>>
    /\ editorPos = Position(1, 1)
    /\ hostDecos = <<>>
    /\ decorationIds = NoDecorations
    /\ cursor = Null
    /\ lastCall = Null
    /\ conv = Null
    /\ scan = Null
    /\ InitAdapter

\* the key map sets and clears cm.inVirtualSelectionMode
SetVirtualSelectionMode(value) ==
    /\ inVirtualSelectionMode # value
    /\ inVirtualSelectionMode' = value
    /\ UNCHANGED <<conv, doc, editorPos, hostDecos, decorationIds, cursor, lastCall, scan>>
    /\ UNCHANGED <<replaceMode, replaceStack, session, attached, marks, uid, created>>
    /\ UNCHANGED <<listeners, calls, selections, curOp>>

HandleChange(e) ==
    /\ Len(calls) < MaxCalls
    /\ \E out \in {handleChange(curOp, listeners, inVirtualSelectionMode, e)} :
        /\ curOp' = out.curOp
        /\ lastCall' = [op |-> "handleChange", e |-> e, opBefore |-> curOp,
                        virtual |-> inVirtualSelectionMode, invoked |-> out.invoked]
    /\ calls' = Append(calls, [op |-> "handleChange", text |-> ChangeTexts(e.changes),
                               virtual |-> inVirtualSelectionMode])
    /\ UNCHANGED <<conv, doc, editorPos, hostDecos, decorationIds, cursor, scan>>
    /\ UNCHANGED <<replaceMode, replaceStack, session, attached, marks, uid, created>>
    /\ UNCHANGED <<listeners, selections, inVirtualSelectionMode>>

NextChange ==
    \/ \E handler \in Handlers : On("change", handler)
    \/ \E handler \in Handlers : Off("change", handler)
    \/ \E value \in BOOLEAN : SetVirtualSelectionMode(value)
    \/ \E e \in ChangeEvents : HandleChange(e)

SpecChange == InitChange /\ [][NextChange]_vars

\* the notifications handled outside virtual selection mode, in arrival order
IsHandled(c) == c.op = "handleChange" /\ ~c.virtual

Handled == SelectSeq(calls, IsHandled)

\* the records met by following next from record i, at most fuel of them
RECURSIVE Chain(_, _, _)
Chain(op, i, fuel) ==
    IF i = 0 \/ fuel = 0 THEN <<>>
    ELSE <<i>> \o Chain(op, op.records[i].next, fuel - 1)

\* C25: following next from curOp.change visits one change record for each
\* notification handled outside virtual selection mode, in arrival order, and
\* curOp.lastChange is the last record of that list and has no next.
C25_ChangeList ==
    /\ Chain(curOp, curOp.change, Len(curOp.records) + 1) = [i \in 1..Len(Handled) |-> i]
    /\ Len(curOp.records) = Len(Handled)
    /\ \A i \in 1..Len(Handled) :
           /\ curOp.records[i].text = Handled[i].text
           /\ curOp.records[i].origin = "+input"
    /\ curOp.lastChange = Len(Handled)
    /\ Len(Handled) > 0 => curOp.records[Len(Handled)].next = 0

\* three notifications have been handled and their records are linked
C25_Witness ==
    /\ Len(Handled) = 3
    /\ Handled[1].text = <<"a">> /\ Handled[2].text = <<"a", "b">> /\ Handled[3].text = <<"b">>
    /\ Chain(curOp, curOp.change, 4) = <<1, 2, 3>>
    /\ curOp.lastChange = 3

\* C26: once handleChange has returned the adapter holds no change record
\* and no change-handler snapshot, and a notification starts from an empty
\* operation context.
C26_Transient ==
    (lastCall # Null /\ lastCall.op = "handleChange") =>
        /\ curOp = EmptyOp
        /\ lastCall.opBefore = EmptyOp

\* a notification began with the record and the snapshot of an earlier one
C26_Retained ==
    /\ lastCall # Null /\ lastCall.op = "handleChange"
    /\ lastCall.opBefore.records # <<>>
    /\ lastCall.opBefore.changeHandlers # Undefined
    /\ curOp.change = 1 /\ curOp.lastChange = 2

---------------------------------------------------------------------------
(* Enumeration specification: a cursor created at the start of the         *)
(* document, then findNext() until it reports no-match                     *)

InitEnumerate ==
    /\ doc \in SearchDocs
    /\ editorPos = Position(1, 1)
    /\ hostDecos = <<>>
    /\ decorationIds = NoDecorations
    /\ cursor = Null
    /\ lastCall = Null
    /\ conv = Null
    /\ scan = Null
    /\ InitAdapter

\* findNext(), and its result put behind the results of the calls before it;
\* it is called until it has reported no-match, and no more often than
\* there are matches and one
FindNextAgain ==
    /\ cursor # Null
    /\ Len(calls) <= Len(cursor.matches)
    /\ IF calls = <<>> THEN TRUE ELSE calls[Len(calls)].result # NoMatch
    /\ \E match \in {find(doc, cursor, FALSE)} :
       \E eff \in {FindEffect(cursor, [decos |-> hostDecos, ids |-> decorationIds], match)} :
          /\ cursor' = [cursor EXCEPT !.lastSearch = eff.lastSearch]
          /\ hostDecos' = eff.decos
          /\ decorationIds' = eff.ids
          /\ lastCall' = Call("findNext", Null, match, FALSE, 0, Null)
          /\ calls' = Append(calls, [op |-> "findNext", result |-> match])
    /\ UNCHANGED <<conv, doc, editorPos, scan>>
    /\ UNCHANGED <<replaceMode, replaceStack, session, attached, marks, uid, created>>
    /\ UNCHANGED <<listeners, selections, opVars>>

NextEnumerate ==
    \/ \E query \in Queries : GetSearchCursor(query, CmPos(0, 0))
    \/ FindNextAgain

SpecEnumerate == InitEnumerate /\ [][NextEnumerate]_vars

\* C29: for a cursor created at the start of the document, with no edit
\* made, the i-th findNext() returns the i-th match of the match list, and
\* the findNext() after the last match reports no-match: every match is
\* returned once, in document order, none is skipped.
C29_CompleteEnumeration ==
    cursor # Null =>
        \A i \in 1..Len(calls) :
            calls[i].result = IF i <= Len(cursor.matches) THEN cursor.matches[i] ELSE NoMatch

\* in "aa", searched for "a", findNext() returned the first match and then
\* reported no-match: the match that begins where the first ends was skipped
C29_AdjacentSkipped ==
    /\ cursor # Null
    /\ doc = <<"a", "a">>
    /\ cursor.matches = <<Range(1, 1, 1, 2), Range(1, 2, 1, 3)>>
    /\ Len(calls) = 2
    /\ calls[1].result = Range(1, 1, 1, 2)
    /\ calls[2].result = NoMatch

\* every match of a list of three was returned in turn, then no-match
C29_Enumerated ==
    /\ cursor # Null
    /\ Len(cursor.matches) = 3
    /\ Len(calls) = 4
    /\ \A i \in 1..3 : calls[i].result = cursor.matches[i]
    /\ calls[4].result = NoMatch

---------------------------------------------------------------------------
(* Dispatch to handlers that call back into the adapter *)

\* what a handler does when it is invoked: nothing, or one on() or off()
\* call for the event being dispatched
HandlerCalls ==
    [h1 |-> [op |-> "none", handler |-> "h1"],
     h2 |-> [op |-> "none", handler |-> "h2"],
     addH2 |-> [op |-> "on", handler |-> "h2"],
     dropH2 |-> [op |-> "off", handler |-> "h2"]]

CallingHandlers == DOMAIN HandlerCalls

\* the loop of dispatch from its i-th turn: array is the array the for...of
\* walks, live tells whether it still is this.listeners[signal].  on() pushes
\* onto this.listeners[signal] in place, so a live array grows under the
\* loop; off() puts a filtered copy in its place and the loop keeps the old
\* array
RECURSIVE DispatchLoop(_, _, _, _, _, _)
DispatchLoop(ls, signal, array, live, i, invoked) ==
    IF i > Len(array) THEN [listeners |-> ls, invoked |-> invoked]
    ELSE Let(HandlerCalls[array[i]], LAMBDA call :
             IF call.op = "on"
             THEN DispatchLoop(on(ls, signal, call.handler), signal,
                               IF live THEN on(ls, signal, call.handler)[signal] ELSE array,
                               live, i + 1, Append(invoked, array[i]))
             ELSE IF call.op = "off"
             THEN DispatchLoop(off(ls, signal, call.handler), signal, array, FALSE, i + 1,
                               Append(invoked, array[i]))
             ELSE DispatchLoop(ls, signal, array, live, i + 1, Append(invoked, array[i])))

\* dispatch(signal) with handlers that may call on() and off(): the
\* listeners it leaves and the handlers it invoked, in order
dispatchCalling(ls, signal) ==
    IF signal \notin DOMAIN ls THEN [listeners |-> ls, invoked |-> <<>>]
    ELSE DispatchLoop(ls, signal, ls[signal], TRUE, 1, <<>>)

---------------------------------------------------------------------------
(* Re-entrant dispatch specification *)

DispatchCalling(signal) ==
    /\ Len(calls) < MaxCalls
    /\ calls' = Append(calls, [op |-> "dispatch", event |-> signal])
    /\ \E r \in {dispatchCalling(listeners, signal)} :
        /\ listeners' = r.listeners
        /\ lastCall' = [op |-> "dispatch", event |-> signal, invoked |-> r.invoked,
                        registered |-> dispatch(listeners, signal)]
    /\ UNCHANGED <<conv, doc, editorPos, hostDecos, decorationIds, cursor, scan>>
    /\ UNCHANGED <<replaceMode, replaceStack, session, attached, marks, uid, created>>
    /\ UNCHANGED <<selections, opVars>>

NextReentrant ==
    \/ \E handler \in CallingHandlers : On("dispose", handler)
    \/ \E handler \in CallingHandlers : Off("dispose", handler)
    \/ DispatchCalling("dispose")

SpecReentrant == InitEvents /\ [][NextReentrant]_vars

\* C31: a dispatch invokes exactly the handlers that were registered for
\* the event when it began, in order, whatever on() and off() calls the
\* handlers make for that event while it runs.
C31_Isolated ==
    (lastCall # Null /\ lastCall.op = "dispatch") => lastCall.invoked = lastCall.registered

\* a handler registered h2 while the dispatch ran, and that dispatch invoked h2
C31_AddedHandlerRan ==
    /\ lastCall # Null /\ lastCall.op = "dispatch"
    /\ lastCall.registered = <<"addH2">>
    /\ lastCall.invoked = <<"addH2", "h2">>

\* a handler removed h2 while the dispatch ran, and that dispatch still
\* invoked h2; the listeners it leaves are without h2
C31_RemovedHandlerRan ==
    /\ lastCall # Null /\ lastCall.op = "dispatch"
    /\ lastCall.registered = <<"dropH2", "h2">>
    /\ lastCall.invoked = <<"dropH2", "h2">>
    /\ listeners["dispose"] = <<"dropH2">>

---------------------------------------------------------------------------
(* Removing the overlay *)

\* for (const key in ["currentFindMatch", "findMatch"]): for...in walks the
\* property names of the array, its indexes, not its elements
OverlayKeys == <<"0", "1">>

\* this[`decoration${key}`] ?? []: the ids held under the key, none when the
\* adapter has no such property
IdsUnder(ids, key) == IF key \in DOMAIN ids THEN ids[key] ELSE <<>>

\* the loop of removeOverlay over keys: each turn hands the host the ids
\* under the key and no new decoration; what the host returns is dropped,
\* so the adapter's ids stay as they are
RECURSIVE RemoveEach(_, _)
RemoveEach(st, keys) ==
    IF keys = <<>> THEN st
    ELSE RemoveEach([decos |-> deltaDecorations(st.decos, IdsUnder(st.ids, keys[1]), <<>>).decos,
                     ids |-> st.ids],
                    Tail(keys))

removeOverlay(st) == RemoveEach(st, OverlayKeys)

\* dispose(): dispatch("dispose"), removeOverlay(), the key map's detach and
\* the disposal of the host subscriptions; the handlers invoked and the
\* decorations left
dispose(ls, st) == [invoked |-> dispatch(ls, "dispose"), st |-> removeOverlay(st)]

---------------------------------------------------------------------------
(* Overlay specification: highlights are drawn, then the overlay is        *)
(* removed or the adapter disposed                                         *)

\* the ranges last asked for under each class, carried along
Recent == IF lastCall = Null THEN [c \in HighlightClasses |-> <<>>] ELSE lastCall.recent

RemoveOverlay ==
    /\ \E r \in {removeOverlay([decos |-> hostDecos, ids |-> decorationIds])} :
        /\ hostDecos' = r.decos
        /\ decorationIds' = r.ids
    /\ lastCall' = [op |-> "removeOverlay", recent |-> Recent, decosBefore |-> hostDecos]
    /\ UNCHANGED <<conv, doc, editorPos, cursor, scan>>
    /\ UNCHANGED adapterVars

Dispose ==
    /\ \E r \in {dispose(listeners, [decos |-> hostDecos, ids |-> decorationIds])} :
        /\ hostDecos' = r.st.decos
        /\ decorationIds' = r.st.ids
        /\ lastCall' = [op |-> "dispose", recent |-> Recent, decosBefore |-> hostDecos,
                        invoked |-> r.invoked]
    /\ attached' = FALSE
    /\ UNCHANGED <<conv, doc, editorPos, cursor, scan>>
    /\ UNCHANGED <<replaceMode, replaceStack, session, marks, uid, created>>
    /\ UNCHANGED eventVars

NextOverlay ==
    \/ \E ranges \in HighlightedRanges, className \in HighlightClasses :
           HighlightRanges(ranges, className)
    \/ RemoveOverlay
    \/ Dispose

SpecOverlay == InitHighlight /\ [][NextOverlay]_vars

\* C32: after removeOverlay(), and after dispose(), the host holds no
\* decoration of the class findMatch or currentFindMatch.
C32_NoHighlightLeft ==
    (lastCall # Null /\ lastCall.op \in {"removeOverlay", "dispose"}) =>
        \A c \in HighlightClasses : DecorationCount(hostDecos, c) = 0

\* dispose() has returned and the host still shows a decoration of each
\* class, the ones the adapter holds the ids of
C32_StillActive ==
    /\ lastCall # Null /\ lastCall.op = "dispose"
    /\ \A c \in HighlightClasses :
           /\ DecorationCount(hostDecos, c) > 0
           /\ SeqToSet(decorationIds[c]) = DecorationsOf(c)
    /\ hostDecos = lastCall.decosBefore

====
